---- MODULE Spec2Model ----
(***************************************************************************)
(* A model of drreg (ext/drreg/drreg.c), DynamoRIO's register management   *)
(* extension, for the x86-64 build (X86, X64 and SIMD_SUPPORTED defined,   *)
(* no error callback registered).                                          *)
(*                                                                         *)
(* The per-thread state is the record pt (per_thread_t).  Every C function *)
(* that takes (drcontext, ilist, ...) is an operator over a "world" record *)
(*   [pt, ilist, err, res, out]                                            *)
(* where ilist is the instruction list being instrumented, err records a   *)
(* call of drreg_report_error (which aborts the process) or a crash, and   *)
(* res / out are the status returned and the OUT register.                 *)
(*                                                                         *)
(* The register file is cut down to four GPRs and two SIMD registers and   *)
(* the arithmetic flags to OF and CF (CF stands for the five flags that    *)
(* lahf/sahf carry); the slot arrays are cut down to MAX_SPILLS entries.   *)
(***************************************************************************)
EXTENDS Integers, Sequences, FiniteSets, TLC

VARIABLES
    pt,       \* per_thread_t of the one application thread
    ops,      \* drreg_options_t ops (static)
    ilist,    \* the instruction list of the block: app and meta instructions
    block,    \* the application instructions of the block, as analysed
    phase,    \* drmgr_current_bb_phase: "none", "insertion", "post"
    pc,       \* position of the insertion walk: "idle","early","client","late","done"
    cur,      \* index in block of the instruction the insertion events are at
    err,      \* "none", or what ended the process
    client,   \* what the client may call: [budget, allowed, unreserve]
    hist,     \* the client's API calls so far, one record per call (see Call)
    drreg_init_count   \* number of drreg_init calls not yet undone by drreg_exit

vars == <<pt, ops, ilist, block, phase, pc, cur, err, client, hist, drreg_init_count>>

----------------------------------------------------------------------------
(* Bounds of the model *)

\* Longest block (number of application instructions)
MaxInstrs == 2
\* Most API calls of a client that may call anything
MaxOps == 2
\* Most API calls of a client that sticks to a few registers
DeepOps == 4
\* Most drreg_init and drreg_exit calls in a sequence, and the largest slot count a client asks for
MaxInits == 3
MaxRequest == 2
\* Longest block whose liveness analysis is examined on its own
AnalysisLen == 3
\* Most API calls of a client that also works outside the insertion phase
ApiOps == 3
\* Longest block and most API calls of a client that reserves only the aflags
FlagLen == 3
FlagOps == 3
\* Block length and number of client calls under SpecFlow
FlowLen == 2
FlowOps == 2
\* Longest block under SpecSimd
SimdLen == 3
\* SPILL_SLOT_MAX: DR's own spill slots are 0 .. SPILL_SLOT_MAX
SPILL_SLOT_MAX == 1
\* ops.num_spill_slots of a client that asks for one slot, and of one that asks for three
FewSlots == 2
ManySlots == 4
\* ops.num_spill_simd_slots
NumSimdSlots == 2

----------------------------------------------------------------------------
(* Registers and program constants *)

DR_REG_NULL == "null"
DR_REG_XAX == "xax"
DR_REG_XSP == "xsp"
\* DR_REG_START_GPR .. DR_REG_STOP_GPR, in increasing reg_id_t order
GPRSeq == <<"xax", "xcx", "xdx", "xsp">>
DR_NUM_GPR_REGS == Len(GPRSeq)
GPRs == {GPRSeq[i] : i \in DOMAIN GPRSeq}
\* DR_REG_APPLICABLE_START_SIMD .. DR_REG_APPLICABLE_STOP_SIMD
SIMDSeq == <<"zmm0", "zmm1">>
SIMDs == {SIMDSeq[i] : i \in DOMAIN SIMDSeq}
\* dr_get_stolen_reg() on x86: there is none
StolenReg == DR_REG_NULL

DR_NUM_SIMD_VECTOR_REGS == Len(SIMDSeq)
MAX_SPILLS == SPILL_SLOT_MAX + DR_NUM_GPR_REGS + 1
MAX_SIMD_SPILLS == DR_NUM_SIMD_VECTOR_REGS * 2
AFLAGS_SLOT == 0

REG_DEAD == 0
REG_LIVE == 1
REG_UNKNOWN == 2
SIMD_XMM_DEAD == 0
SIMD_YMM_DEAD == 1
SIMD_ZMM_DEAD == 2
SIMD_XMM_LIVE == 3
SIMD_YMM_LIVE == 4
SIMD_ZMM_LIVE == 5
SIMD_UNKNOWN == 6

\* EFLAGS_READ_ARITH, as the set of flags
EFLAGS_READ_ARITH == {"OF", "CF"}
EFLAGS_READ_OF == "OF"

DRREG_SUCCESS == "Success"
DRREG_ERROR == "Error"
DRREG_ERROR_INVALID_PARAMETER == "InvalidParameter"
DRREG_ERROR_FEATURE_NOT_AVAILABLE == "FeatureNotAvailable"
DRREG_ERROR_REG_CONFLICT == "RegConflict"
DRREG_ERROR_IN_USE == "InUse"
DRREG_ERROR_OUT_OF_SLOTS == "OutOfSlots"
DRREG_ERROR_NO_APP_VALUE == "NoAppValue"

DRREG_IGNORE_CONTROL_FLOW == "IgnoreControlFlow"
DRREG_CONTAINS_SPANNING_CONTROL_FLOW == "ContainsSpanningControlFlow"

----------------------------------------------------------------------------
(* Application instructions: what the host's instruction predicates answer *)

\* rd:   instr_reads_from_reg (any query flags)
\* wr:   instr_writes_to_reg(DR_QUERY_INCLUDE_ALL)
\* wrx:  instr_writes_to_exact_reg of the pointer-sized register
\* wrx32 instr_writes_to_exact_reg of the 32-bit alias
\* wrc:  written only conditionally (not under DR_QUERY_DEFAULT)
\* taken whether a conditional write happens when the instruction executes
\* frd / fwr: arithmetic flags read / written
\* xfer: instr_is_cti || instr_is_interrupt || instr_is_syscall
\* intra: a ubr or cbr whose target is an instruction of the block
\* srd / swr: SIMD registers read / written exactly, by the name of the width used
AppInstr(name, rd, wr, wrx, wrx32, wrc, taken, frd, fwr, xfer, intra, srd, swr) ==
    [name |-> name, rd |-> rd, wr |-> wr, wrx |-> wrx, wrx32 |-> wrx32, wrc |-> wrc,
     taken |-> taken, frd |-> frd, fwr |-> fwr, xfer |-> xfer, intra |-> intra,
     srd |-> srd, swr |-> swr]

I_mov_xax_imm == AppInstr("mov xax,imm", {}, {"xax"}, {"xax"}, {}, {}, TRUE, {}, {}, FALSE, FALSE, {}, {})
I_mov_mem_xax == AppInstr("mov [m],xax", {"xax"}, {}, {}, {}, {}, TRUE, {}, {}, FALSE, FALSE, {}, {})
I_add_xax_1 == AppInstr("add xax,1", {"xax"}, {"xax"}, {"xax"}, {}, {}, TRUE, {}, {"OF", "CF"}, FALSE, FALSE, {}, {})
I_mov_al_imm == AppInstr("mov al,imm", {}, {"xax"}, {}, {}, {}, TRUE, {}, {}, FALSE, FALSE, {}, {})
I_mov_ecx_imm == AppInstr("mov ecx,imm", {}, {"xcx"}, {}, {"xcx"}, {}, TRUE, {}, {}, FALSE, FALSE, {}, {})
I_xchg_xax_xcx == AppInstr("xchg xax,xcx", {"xax", "xcx"}, {"xax", "xcx"}, {"xax", "xcx"}, {}, {}, TRUE, {}, {}, FALSE, FALSE, {}, {})
I_cmovb_t == AppInstr("cmovb xcx,xdx (taken)", {"xdx"}, {"xcx"}, {"xcx"}, {}, {"xcx"}, TRUE, {"CF"}, {}, FALSE, FALSE, {}, {})
I_cmovb_nt == AppInstr("cmovb xcx,xdx (not taken)", {"xdx"}, {"xcx"}, {"xcx"}, {}, {"xcx"}, FALSE, {"CF"}, {}, FALSE, FALSE, {}, {})
I_cmp == AppInstr("cmp [m],imm", {}, {}, {}, {}, {}, TRUE, {}, {"OF", "CF"}, FALSE, FALSE, {}, {})
I_stc == AppInstr("stc", {}, {}, {}, {}, {}, TRUE, {}, {"CF"}, FALSE, FALSE, {}, {})
I_seto_mem == AppInstr("seto [m]", {}, {}, {}, {}, {}, TRUE, {"OF"}, {}, FALSE, FALSE, {}, {})
I_jb == AppInstr("jb", {}, {}, {}, {}, {}, TRUE, {"CF"}, {}, TRUE, FALSE, {}, {})
I_jb_intra == AppInstr("jb <instr>", {}, {}, {}, {}, {}, TRUE, {"CF"}, {}, TRUE, TRUE, {}, {})
I_ret == AppInstr("ret", {"xsp"}, {"xsp"}, {"xsp"}, {}, {}, TRUE, {}, {}, TRUE, FALSE, {}, {})
I_movdqa_xmm0_mem == AppInstr("movdqa xmm0,[m]", {}, {}, {}, {}, {}, TRUE, {}, {}, FALSE, FALSE, {}, {"xmm0"})
I_paddd_xmm0_xmm1 == AppInstr("paddd xmm0,xmm1", {}, {}, {}, {}, {}, TRUE, {}, {}, FALSE, FALSE, {"xmm0", "xmm1"}, {"xmm0"})

\* The instructions blocks are drawn from
Catalog ==
    {I_mov_xax_imm, I_mov_mem_xax, I_add_xax_1, I_mov_al_imm, I_mov_ecx_imm,
     I_xchg_xax_xcx, I_cmovb_t, I_cmovb_nt, I_cmp, I_stc, I_seto_mem, I_jb,
     I_jb_intra, I_ret, I_movdqa_xmm0_mem, I_paddd_xmm0_xmm1}

\* The instructions the longer blocks are drawn from
Core ==
    {I_mov_xax_imm, I_mov_mem_xax, I_add_xax_1, I_mov_al_imm, I_xchg_xax_xcx,
     I_cmovb_nt, I_jb, I_movdqa_xmm0_mem}

SeqsUpTo(S, n) == UNION {[1..m -> S] : m \in 1..n}
\* Every single instruction, and the blocks of up to MaxInstrs core instructions
Blocks == SeqsUpTo(Catalog, 1) \cup SeqsUpTo(Core, MaxInstrs)

----------------------------------------------------------------------------
(* Instruction list *)

\* One entry of the instruction list.  op "app" is the application
\* instruction block[k]; every other op is a meta instruction.
\* note is the role the emitting code gives the instruction ("" if none)
Instr(op, r, r2, s, k) == [op |-> op, r |-> r, r2 |-> r2, s |-> s, k |-> k, note |-> ""]
AppI(k) == Instr("app", DR_REG_NULL, DR_REG_NULL, 0, k)

\* An instr_t* used as an insertion point: the application instruction k
\* (k = Len(block) + 1 is NULL, the end of the list), or instr_get_prev of it.
Where(k, prev) == [k |-> k, prev |-> prev]
At(k) == Where(k, FALSE)
PrevOf(k) == Where(k, TRUE)

PosOfApp(il, k) ==
    IF \E i \in DOMAIN il : il[i].op = "app" /\ il[i].k = k
    THEN CHOOSE i \in DOMAIN il : il[i].op = "app" /\ il[i].k = k
    ELSE Len(il) + 1

PosOf(il, where) == IF where.prev THEN PosOfApp(il, where.k) - 1 ELSE PosOfApp(il, where.k)

InsertAt(il, pos, x) == SubSeq(il, 1, pos - 1) \o <<x>> \o SubSeq(il, pos, Len(il))

\* instrlist_meta_preinsert(ilist, where, x)
\* instr_get_prev(NULL) dereferences a null pointer: the process crashes
PRE(w, where, x) ==
    IF w.err # "none" THEN w
    ELSE IF where.prev /\ where.k > Len(block) THEN [w EXCEPT !.err = "crash: instr_get_prev(NULL)"]
    ELSE [w EXCEPT !.ilist = InsertAt(w.ilist, PosOf(w.ilist, where), [x EXCEPT !.note = w.note, !.k = IF w.note = "" THEN @ ELSE w.at])]

----------------------------------------------------------------------------
(* Register metadata of the host *)

reg_is_gpr(reg) == reg \in GPRs

\* The xmm, ymm and zmm names of the SIMD registers of the model
SimdNames ==
    [zmm0 |-> [OPSZ_16 |-> "xmm0", OPSZ_32 |-> "ymm0", OPSZ_64 |-> "zmm0"],
     zmm1 |-> [OPSZ_16 |-> "xmm1", OPSZ_32 |-> "ymm1", OPSZ_64 |-> "zmm1"]]
OpSizes == {"OPSZ_16", "OPSZ_32", "OPSZ_64"}
reg_is_strictly_xmm(reg) == \E z \in SIMDs : SimdNames[z]["OPSZ_16"] = reg
reg_is_strictly_ymm(reg) == \E z \in SIMDs : SimdNames[z]["OPSZ_32"] = reg
reg_is_strictly_zmm(reg) == \E z \in SIMDs : SimdNames[z]["OPSZ_64"] = reg
reg_is_vector_simd(reg) == reg_is_strictly_xmm(reg) \/ reg_is_strictly_ymm(reg) \/ reg_is_strictly_zmm(reg)
reg_resize_to_opsz(reg, sz) ==
    LET z == CHOOSE z \in SIMDs : \E o \in OpSizes : SimdNames[z][o] = reg IN SimdNames[z][sz]
\* SIMD_IDX(reg): the index of the register's record, here its zmm name
SIMD_IDX(reg) == reg_resize_to_opsz(reg, "OPSZ_64")

\* drvector_get_entry: NULL (0) for an index that is not in the vector
drvector_get_entry(vec, idx) == IF idx + 1 \in DOMAIN vec THEN vec[idx + 1] ELSE 0
\* the same for the aflags vector, whose entries are sets of flags (0 is the empty set)
aflags_get_entry(vec, idx) == IF idx + 1 \in DOMAIN vec THEN vec[idx + 1] ELSE {}

----------------------------------------------------------------------------
(* Per-thread state *)

\* reg_info_t
reg_info_t(live, in_use, app_uses, ever_spilled, native, xchg, slot) ==
    [live |-> live, in_use |-> in_use, app_uses |-> app_uses,
     ever_spilled |-> ever_spilled, native |-> native, xchg |-> xchg, slot |-> slot]

\* tls_data_init: memset 0, then native = true and empty live vectors
tls_data_init ==
    [cur_instr |-> 0,
     live_idx |-> 0,
     reg |-> [r \in GPRs |-> reg_info_t(<<>>, FALSE, 0, FALSE, TRUE, DR_REG_NULL, 0)],
     simd_reg |-> [r \in SIMDs |-> reg_info_t(<<>>, FALSE, 0, FALSE, TRUE, DR_REG_NULL, 0)],
     aflags |-> reg_info_t(<<>>, FALSE, 0, FALSE, TRUE, DR_REG_NULL, 0),
     slot_use |-> [s \in 0..(MAX_SPILLS - 1) |-> DR_REG_NULL],
     simd_slot_use |-> [s \in 0..(MAX_SIMD_SPILLS - 1) |-> DR_REG_NULL],
     pending_unreserved |-> 0,
     simd_pending_unreserved |-> 0,
     bb_props |-> {},
     bb_has_internal_flow |-> FALSE]

World(p, il) ==
    [pt |-> p, ilist |-> il, err |-> "none", res |-> DRREG_SUCCESS, out |-> DR_REG_NULL,
     note |-> "", at |-> 0, restored_for_read |-> {}, restored_for_simd_read |-> {}]

\* drreg_report_error with no error callback: the process aborts
drreg_report_error(w, res, msg) == IF w.err = "none" THEN [w EXCEPT !.err = msg] ELSE w

Ret(w, res) == [w EXCEPT !.res = res]

\* A C local: v is computed once, when the assignment is reached, and Body reads it
With(v, Body(_)) == Body(v)

----------------------------------------------------------------------------
(* Slot pool *)

FreeSlots(p) == {i \in (AFLAGS_SLOT + 1)..(MAX_SPILLS - 1) : p.slot_use[i] = DR_REG_NULL}

\* Wrong on purpose: the scan starts at the aflags slot
FindFreeSlotFromZero(p) ==
    LET free == {i \in AFLAGS_SLOT..(MAX_SPILLS - 1) : p.slot_use[i] = DR_REG_NULL}
    IN IF free = {} THEN MAX_SPILLS ELSE CHOOSE i \in free : \A j \in free : i <= j

find_free_slot(p) ==
    IF FreeSlots(p) = {} THEN MAX_SPILLS
    ELSE CHOOSE i \in FreeSlots(p) : \A j \in FreeSlots(p) : i <= j

find_simd_free_slot(p) ==
    LET free == {i \in 0..(ops.num_spill_simd_slots - 1) : p.simd_slot_use[i] = DR_REG_NULL}
    IN IF free = {} THEN MAX_SIMD_SPILLS ELSE CHOOSE i \in free : \A j \in free : i <= j


----------------------------------------------------------------------------
(* Liveness analysis, block mode: drreg_event_bb_analysis *)

\* The instruction the reverse scan visits at index idx (0 is the last one)
InstAtIndex(blk, idx) == blk[Len(blk) - idx]

\* instr_writes_to_exact_reg(inst, reg, DR_QUERY_INCLUDE_COND_SRCS), of the
\* register or, on x86-64, of its 32-bit alias: a conditional write is not one
WritesExactUncond(inst, reg) == reg \in ((inst.wrx \cup inst.wrx32) \ inst.wrc)

\* Wrong on purpose: a write to a sub-register counts as a write of the register
RECURSIVE GprLiveSubregKills(_, _, _)
GprLiveSubregKills(blk, reg, idx) ==
    LET inst == InstAtIndex(blk, idx) IN
    IF reg \in inst.rd THEN REG_LIVE
    ELSE IF reg \in inst.wr \ inst.wrc THEN REG_DEAD
    ELSE IF inst.xfer THEN REG_LIVE
    ELSE IF idx > 0 THEN GprLiveSubregKills(blk, reg, idx - 1)
    ELSE REG_LIVE

RECURSIVE GprLiveAt(_, _, _)
GprLiveAt(blk, reg, idx) ==
    LET inst == InstAtIndex(blk, idx) IN
    IF reg \in inst.rd THEN REG_LIVE
    ELSE IF WritesExactUncond(inst, reg) THEN REG_DEAD
    ELSE IF inst.xfer THEN REG_LIVE
    ELSE IF idx > 0 THEN GprLiveAt(blk, reg, idx - 1)
    ELSE REG_LIVE

\* determine_simd_liveness_state: [set |-> state was set, value |-> *value]
determine_simd_liveness_state(inst, reg, value) ==
    LET xmm_reg == reg_resize_to_opsz(reg, "OPSZ_16")
        ymm_reg == reg_resize_to_opsz(reg, "OPSZ_32")
        zmm_reg == reg_resize_to_opsz(reg, "OPSZ_64")
        reads == inst.srd \cap {xmm_reg, ymm_reg, zmm_reg} # {}
        writes == inst.swr \cap {xmm_reg, ymm_reg, zmm_reg} # {}
    IN
    IF reads THEN
        [set |-> TRUE,
         value |->
            IF zmm_reg \in inst.srd /\ (value <= SIMD_ZMM_LIVE \/ value = SIMD_UNKNOWN)
            THEN SIMD_ZMM_LIVE
            ELSE IF ymm_reg \in inst.srd /\ (value <= SIMD_YMM_LIVE \/ value = SIMD_UNKNOWN)
            THEN SIMD_YMM_LIVE
            ELSE IF xmm_reg \in inst.srd /\ (value <= SIMD_XMM_LIVE \/ value = SIMD_UNKNOWN)
            THEN SIMD_XMM_LIVE
            ELSE SIMD_ZMM_LIVE]
    ELSE IF writes /\ zmm_reg \in inst.swr THEN [set |-> TRUE, value |-> SIMD_ZMM_DEAD]
    ELSE IF writes /\ ymm_reg \in inst.swr /\ (value < SIMD_YMM_DEAD \/ value >= SIMD_XMM_LIVE)
    THEN [set |-> TRUE, value |-> SIMD_YMM_DEAD]
    ELSE IF writes /\ xmm_reg \in inst.swr /\ value >= SIMD_XMM_LIVE
    THEN [set |-> TRUE, value |-> SIMD_XMM_DEAD]
    ELSE [set |-> FALSE, value |-> value]

RECURSIVE SimdLiveAt(_, _, _)
SimdLiveAt(blk, reg, idx) ==
    LET inst == InstAtIndex(blk, idx)
        d == determine_simd_liveness_state(inst, reg, SIMD_UNKNOWN) IN
    IF d.set THEN d.value
    ELSE IF inst.xfer THEN SIMD_ZMM_LIVE
    ELSE IF idx > 0 THEN SimdLiveAt(blk, reg, idx - 1)
    ELSE SIMD_UNKNOWN

\* Wrong on purpose: the end of the block is taken to read no flag
RECURSIVE AflagsDeadAtEnd(_, _)
AflagsDeadAtEnd(blk, idx) ==
    LET inst == InstAtIndex(blk, idx) IN
    IF inst.xfer THEN EFLAGS_READ_ARITH
    ELSE LET prev == IF idx = 0 THEN {} ELSE AflagsDeadAtEnd(blk, idx - 1)
         IN (prev \cup inst.frd) \ (inst.fwr \ inst.frd)

RECURSIVE AflagsLiveAt(_, _)
AflagsLiveAt(blk, idx) ==
    LET inst == InstAtIndex(blk, idx) IN
    IF inst.xfer THEN EFLAGS_READ_ARITH
    ELSE LET prev == IF idx = 0 THEN EFLAGS_READ_ARITH ELSE AflagsLiveAt(blk, idx - 1)
         IN (prev \cup inst.frd) \ (inst.fwr \ inst.frd)

\* count_app_uses over all operands of all instructions of the block
RECURSIVE AppUses(_, _, _)
AppUses(blk, reg, n) ==
    IF n = 0 THEN 0
    ELSE AppUses(blk, reg, n - 1)
         + (IF reg \in blk[n].rd \cup blk[n].srd THEN 1 ELSE 0)
         + (IF reg \in blk[n].wr \cup blk[n].swr THEN 1 ELSE 0)

SimdAppUses(blk, z, n) ==
    AppUses(blk, SimdNames[z]["OPSZ_16"], n) + AppUses(blk, SimdNames[z]["OPSZ_32"], n)
    + AppUses(blk, SimdNames[z]["OPSZ_64"], n)

drreg_event_bb_analysis(p, blk) ==
    LET n == Len(blk) IN
    [p EXCEPT
        !.reg = [r \in GPRs |->
                    [p.reg[r] EXCEPT !.app_uses = AppUses(blk, r, n),
                                     !.live = [i \in 1..n |-> GprLiveAt(blk, r, i - 1)]]],
        !.simd_reg = [z \in SIMDs |->
                    [p.simd_reg[z] EXCEPT !.app_uses = SimdAppUses(blk, z, n),
                                          !.live = [i \in 1..n |-> SimdLiveAt(blk, z, i - 1)]]],
        !.aflags = [p.aflags EXCEPT !.live = [i \in 1..n |-> AflagsLiveAt(blk, i - 1)]],
        !.bb_has_internal_flow = \E i \in 1..n : blk[i].intra,
        !.live_idx = n]

\* drreg_event_bb_insert_early
drreg_event_bb_insert_early(p, k) == [p EXCEPT !.cur_instr = k, !.live_idx = p.live_idx - 1]

\* drmgr_is_last_instr
drmgr_is_last_instr(k) == k = Len(block)


----------------------------------------------------------------------------
(* Liveness analysis, forward mode: drreg_forward_analysis *)

\* What the host's instruction predicates answer for a meta instruction
Meta(name, rd, wr, wrx, frd, fwr, srd, swr) ==
    AppInstr(name, rd, wr, wrx, {}, {}, TRUE, frd, fwr, FALSE, FALSE, srd, swr)

MetaInstr(x) ==
    CASE x.op \in {"spill", "dr_save_reg"} -> Meta(x.op, {x.r}, {}, {}, {}, {}, {}, {})
      [] x.op \in {"restore", "dr_restore_reg", "load_block", "tool_write"} ->
            Meta(x.op, {}, {x.r}, {x.r}, {}, {}, {}, {})
      [] x.op = "xchg" -> Meta(x.op, {x.r, x.r2}, {x.r, x.r2}, {x.r, x.r2}, {}, {}, {}, {})
      [] x.op = "lahf" -> Meta(x.op, {}, {DR_REG_XAX}, {}, {"CF"}, {}, {}, {})
      [] x.op = "seto" -> Meta(x.op, {}, {DR_REG_XAX}, {}, {"OF"}, {}, {}, {})
      [] x.op = "cmp" -> Meta(x.op, {DR_REG_XAX}, {}, {}, {}, {"OF", "CF"}, {}, {})
      [] x.op = "sahf" -> Meta(x.op, {DR_REG_XAX}, {}, {}, {}, {"CF"}, {}, {})
      [] x.op = "tool_write_aflags" -> Meta(x.op, {}, {}, {}, {}, {"OF", "CF"}, {}, {})
      [] x.op = "tool_write_simd" -> Meta(x.op, {}, {}, {}, {}, {}, {}, {x.r})
      [] x.op = "movdqa_store" -> Meta(x.op, {x.r2}, {}, {}, {}, {}, {x.r}, {})
      [] x.op = "movdqa_load" -> Meta(x.op, {x.r2}, {}, {}, {}, {}, {}, {x.r})
      [] x.op = "mov" -> Meta(x.op, {x.r2}, {x.r}, {x.r}, {}, {}, {}, {})
      [] x.op = "movdqa" -> Meta(x.op, {}, {}, {}, {}, {}, {x.r2}, {x.r})

\* The instruction at an entry of the list, application or meta
InstrOf(x) == IF x.op = "app" THEN block[x.k] ELSE MetaInstr(x)

\* One iteration of the scan: st is [reg, simd, written], the entries 0 so far
\* and the write bits of aflags_cur
ForwardStep(st, inst) ==
    [reg |-> [r \in GPRs |->
                IF st.reg[r] # REG_UNKNOWN THEN st.reg[r]
                ELSE IF r \in inst.rd THEN REG_LIVE
                ELSE IF WritesExactUncond(inst, r) THEN REG_DEAD
                ELSE REG_UNKNOWN],
     simd |-> [z \in SIMDs |->
                IF st.simd[z] # SIMD_UNKNOWN THEN st.simd[z]
                ELSE determine_simd_liveness_state(inst, z, SIMD_UNKNOWN).value],
     written |-> st.written \cup (inst.fwr \ inst.frd)]

\* Wrong on purpose: the scan does not stop at a cti, interrupt or syscall
RECURSIVE ForwardScanPastTransfer(_, _, _)
ForwardScanPastTransfer(il, i, st) ==
    IF i > Len(il) THEN st
    ELSE ForwardScanPastTransfer(il, i + 1, ForwardStep(st, InstrOf(il[i])))

\* "for (inst = start; inst != NULL; inst = instr_get_next(inst))", from position i
RECURSIVE ForwardScan(_, _, _)
ForwardScan(il, i, st) ==
    IF i > Len(il) THEN st
    ELSE IF InstrOf(il[i]).xfer THEN st
    ELSE ForwardScan(il, i + 1, ForwardStep(st, InstrOf(il[i])))

\* count_app_uses over the operands of the application instructions the scan visits
RECURSIVE ForwardUses(_, _, _)
ForwardUses(il, i, reg) ==
    IF i > Len(il) THEN 0
    ELSE IF InstrOf(il[i]).xfer THEN 0
    ELSE ForwardUses(il, i + 1, reg)
         + (IF il[i].op # "app" THEN 0
            ELSE IF reg \in GPRs THEN AppUses(<<block[il[i].k]>>, reg, 1)
            ELSE SimdAppUses(<<block[il[i].k]>>, reg, 1))

\* drvector_set_entry(vec, 0, v)
SetEntry0(vec, v) == IF vec = <<>> THEN <<v>> ELSE [vec EXCEPT ![1] = v]

drreg_forward_analysis(p, il, start) ==
    With(ForwardScan(il, start,
                     [reg |-> [r \in GPRs |-> REG_UNKNOWN],
                      simd |-> [z \in SIMDs |-> SIMD_UNKNOWN],
                      written |-> {}]), LAMBDA st :
    [p EXCEPT
        !.reg = [r \in GPRs |->
                    [p.reg[r] EXCEPT
                        !.app_uses = ForwardUses(il, start, r),
                        !.live = SetEntry0(@, IF st.reg[r] = REG_UNKNOWN THEN REG_LIVE
                                              ELSE st.reg[r])]],
        !.simd_reg = [z \in SIMDs |->
                    [p.simd_reg[z] EXCEPT
                        !.app_uses = ForwardUses(il, start, z),
                        !.ever_spilled = FALSE,
                        !.live = SetEntry0(@, IF st.simd[z] = SIMD_UNKNOWN THEN SIMD_ZMM_LIVE
                                              ELSE st.simd[z])]],
        !.aflags = [p.aflags EXCEPT !.live = SetEntry0(@, EFLAGS_READ_ARITH \ st.written)],
        !.live_idx = 0])

----------------------------------------------------------------------------
(* Direct (GPR) spills and restores *)

\* Sets the role noted on the instructions emitted from here on
Noting(w, note) == [w EXCEPT !.note = note]

\* dr_save_reg and dr_restore_reg: DR has the slots 0 .. SPILL_SLOT_MAX and no others
dr_save_reg(w, where, reg, DR_slot) ==
    IF DR_slot > SPILL_SLOT_MAX THEN [w EXCEPT !.err = "crash: invalid DR spill slot"]
    ELSE PRE(w, where, Instr("dr_save_reg", reg, DR_REG_NULL, DR_slot, 0))
dr_restore_reg(w, where, reg, DR_slot) ==
    IF DR_slot > SPILL_SLOT_MAX THEN [w EXCEPT !.err = "crash: invalid DR spill slot"]
    ELSE PRE(w, where, Instr("dr_restore_reg", reg, DR_REG_NULL, DR_slot, 0))

\* Wrong on purpose: spill_reg_directly that forgets "pt->slot_use[slot] = reg"
SpillForgetsSlotUse(w, reg, slot, where) ==
    IF w.err # "none" THEN w
    ELSE LET w1 == [w EXCEPT !.pt.aflags.ever_spilled = IF slot = AFLAGS_SLOT THEN TRUE ELSE @]
         IN IF slot < ops.num_spill_slots
            THEN PRE(w1, where, Instr("spill", reg, DR_REG_NULL, slot, 0))
            ELSE dr_save_reg(w1, where, reg, slot - ops.num_spill_slots)

spill_reg_directly(w, reg, slot, where) ==
    IF w.err # "none" THEN w
    ELSE LET w1 == [w EXCEPT !.pt.aflags.ever_spilled = IF slot = AFLAGS_SLOT THEN TRUE ELSE @,
                             !.pt.slot_use[slot] = reg]
         IN IF slot < ops.num_spill_slots
            THEN PRE(w1, where, Instr("spill", reg, DR_REG_NULL, slot, 0))
            ELSE dr_save_reg(w1, where, reg, slot - ops.num_spill_slots)

\* Wrong on purpose: the slot stays bound to the register after a releasing restore
RestoreKeepsSlot(w, reg, slot, where, release) ==
    IF w.err # "none" THEN w
    ELSE IF slot < ops.num_spill_slots
    THEN PRE(w, where, Instr("restore", reg, DR_REG_NULL, slot, 0))
    ELSE dr_restore_reg(w, where, reg, slot - ops.num_spill_slots)

restore_reg_directly(w, reg, slot, where, release) ==
    IF w.err # "none" THEN w
    ELSE LET w1 == IF release THEN [w EXCEPT !.pt.slot_use[slot] = DR_REG_NULL] ELSE w
         IN IF slot < ops.num_spill_slots
            THEN PRE(w1, where, Instr("restore", reg, DR_REG_NULL, slot, 0))
            ELSE dr_restore_reg(w1, where, reg, slot - ops.num_spill_slots)

----------------------------------------------------------------------------
(* Reservation of a GPR, the arithmetic flags kept in xax *)

\* A drvector_t *reg_allowed is the set of registers whose entry is set;
\* NULL allows every register
NULL_VECTOR == GPRs \cup SIMDs
\* reg_allowed == NULL || drvector_get_entry(reg_allowed, idx) != NULL
Allowed(reg_allowed, reg) == reg \in reg_allowed

GPR_IDX(reg) == CHOOSE i \in DOMAIN GPRSeq : GPRSeq[i] = reg
\* The register a loop from DR_REG_START_GPR upward meets first in S
FirstGpr(S) ==
    IF S = {} THEN DR_REG_NULL ELSE CHOOSE r \in S : \A q \in S : GPR_IDX(r) <= GPR_IDX(q)

LiveNow(p, reg) == drvector_get_entry(p.reg[reg].live, p.live_idx)

\* "if (drmgr_current_bb_phase(drcontext) != DRMGR_PHASE_INSERTION)
\*      res = drreg_forward_analysis(drcontext, where);"
ForwardUnlessInsertion(w, where) ==
    IF phase # "insertion"
    THEN [w EXCEPT !.pt = drreg_forward_analysis(w.pt, w.ilist, PosOf(w.ilist, where))]
    ELSE w

RECURSIVE drreg_reserve_gpr_internal(_, _, _, _)
RECURSIVE drreg_move_aflags_from_reg(_, _, _)
RECURSIVE drreg_restore_aflags(_, _, _)

drreg_reserve_reg_internal_gpr(w, where, reg_allowed, only_if_no_spill) ==
    drreg_reserve_gpr_internal(w, where, reg_allowed, only_if_no_spill)

drreg_restore_reg_now_gpr(w, inst, reg) ==
    LET p == w.pt IN
    IF p.reg[reg].ever_spilled /\ p.reg[reg].xchg # DR_REG_NULL
    THEN Ret(w, DRREG_ERROR_FEATURE_NOT_AVAILABLE)
    ELSE LET w1 == IF p.reg[reg].ever_spilled
                   THEN restore_reg_directly(w, reg, p.reg[reg].slot, inst, TRUE)
                   ELSE [w EXCEPT !.pt.slot_use[p.reg[reg].slot] = DR_REG_NULL]
         IN Ret([w1 EXCEPT !.pt.reg[reg].native = TRUE], DRREG_SUCCESS)

\* Wrong on purpose: outside the insertion phase the unreservation is deferred too
UnreserveAlwaysLazy(w, where, reg) ==
    IF ~w.pt.reg[reg].in_use THEN Ret(w, DRREG_ERROR_INVALID_PARAMETER)
    ELSE Ret([w EXCEPT !.pt.pending_unreserved = @ + 1, !.pt.reg[reg].in_use = FALSE],
             DRREG_SUCCESS)

\* Wrong on purpose: the pending counter is incremented before in_use is tested
UnreserveCountsFirst(w, where, reg) ==
    IF ~w.pt.reg[reg].in_use
    THEN Ret([w EXCEPT !.pt.pending_unreserved = @ + 1], DRREG_ERROR_INVALID_PARAMETER)
    ELSE IF phase # "insertion"
    THEN With(drreg_restore_reg_now_gpr(w, where, reg), LAMBDA w1 :
            IF w1.res # DRREG_SUCCESS THEN w1
            ELSE Ret([w1 EXCEPT !.pt.reg[reg].in_use = FALSE], DRREG_SUCCESS))
    ELSE Ret([w EXCEPT !.pt.pending_unreserved = @ + 1, !.pt.reg[reg].in_use = FALSE],
             DRREG_SUCCESS)

drreg_unreserve_register_gpr(w, where, reg) ==
    IF ~w.pt.reg[reg].in_use THEN Ret(w, DRREG_ERROR_INVALID_PARAMETER)
    ELSE IF phase # "insertion"
    THEN With(drreg_restore_reg_now_gpr(w, where, reg), LAMBDA w1 :
            IF w1.res # DRREG_SUCCESS THEN w1
            ELSE Ret([w1 EXCEPT !.pt.reg[reg].in_use = FALSE], DRREG_SUCCESS))
    ELSE Ret([w EXCEPT !.pt.pending_unreserved = @ + 1, !.pt.reg[reg].in_use = FALSE],
             DRREG_SUCCESS)

\* Wrong on purpose: the first loop never finds a register
NoPendingChoice(p, reg_allowed, only_if_no_spill) == DR_REG_NULL

\* The loop at "First, try to use a previously unreserved ... reg"
PendingChoice(p, reg_allowed, only_if_no_spill) ==
    IF p.pending_unreserved > 0
    THEN FirstGpr({r \in GPRs :
            /\ ~p.reg[r].native /\ ~p.reg[r].in_use
            /\ Allowed(reg_allowed, r)
            /\ (~only_if_no_spill \/ p.reg[r].ever_spilled \/ LiveNow(p, r) = REG_DEAD)})
    ELSE DR_REG_NULL

\* Wrong on purpose: the second loop prefers the least-used register to a dead one
LeastUsedBeforeDead(p, reg_allowed, only_if_no_spill) ==
    LET C == {r \in GPRs : ~p.reg[r].in_use /\ r # StolenReg /\ r # DR_REG_XSP
                            /\ Allowed(reg_allowed, r)}
        dead == FirstGpr({r \in C : LiveNow(p, r) = REG_DEAD}) IN
    IF ~only_if_no_spill
    THEN FirstGpr({r \in C : \A q \in C : p.reg[r].app_uses <= p.reg[q].app_uses})
    ELSE dead

\* Wrong on purpose: the second loop without "if (pt->reg[idx].in_use) continue"
CandidatesInUseToo(p, reg_allowed) ==
    {r \in GPRs : r # StolenReg /\ r # DR_REG_XSP /\ Allowed(reg_allowed, r)}

\* The registers the second loop does not skip before it looks at liveness
Candidates(p, reg_allowed) ==
    {r \in GPRs : ~p.reg[r].in_use /\ r # StolenReg /\ r # DR_REG_XSP /\ Allowed(reg_allowed, r)}

\* Wrong on purpose: the second loop without "if (only_if_no_spill) continue"
LeastUsedThoughLive(p, reg_allowed, only_if_no_spill) ==
    LET C == {r \in GPRs : ~p.reg[r].in_use /\ r # StolenReg /\ r # DR_REG_XSP
                            /\ Allowed(reg_allowed, r)}
        dead == FirstGpr({r \in C : LiveNow(p, r) = REG_DEAD}) IN
    IF dead # DR_REG_NULL THEN dead
    ELSE FirstGpr({r \in C : \A q \in C : p.reg[r].app_uses <= p.reg[q].app_uses})

\* The loop at "Look for a dead register, or the least-used register":
\* the dead register it breaks at, else best_reg, else DR_REG_NULL
DeadOrLeastUsed(p, reg_allowed, only_if_no_spill) ==
    LET C == Candidates(p, reg_allowed)
        dead == FirstGpr({r \in C : LiveNow(p, r) = REG_DEAD}) IN
    IF dead # DR_REG_NULL THEN dead
    ELSE IF only_if_no_spill THEN DR_REG_NULL
    ELSE FirstGpr({r \in C : \A q \in C : p.reg[r].app_uses <= p.reg[q].app_uses})

\* Wrong on purpose: the register is stored whether or not it is live
ReserveTailAlwaysSpills(w, where, reg, slot0, already_spilled) ==
    With(IF slot0 = MAX_SPILLS THEN find_free_slot(w.pt) ELSE slot0, LAMBDA slot :
    IF slot = MAX_SPILLS THEN Ret(w, DRREG_ERROR_OUT_OF_SLOTS)
    ELSE LET w1 == [w EXCEPT !.pt.reg[reg].in_use = TRUE]
             w2 == IF already_spilled THEN w1
                   ELSE [spill_reg_directly(w1, reg, slot, where)
                            EXCEPT !.pt.reg[reg].ever_spilled = TRUE]
         IN [w2 EXCEPT !.pt.reg[reg].native = FALSE, !.pt.reg[reg].xchg = DR_REG_NULL,
                       !.pt.reg[reg].slot = slot, !.res = DRREG_SUCCESS, !.out = reg])

\* The tail of drreg_reserve_gpr_internal, from "if (slot == MAX_SPILLS)"
ReserveGprTail(w, where, reg, slot0, already_spilled) ==
    With(IF slot0 = MAX_SPILLS THEN find_free_slot(w.pt) ELSE slot0, LAMBDA slot :
    IF slot = MAX_SPILLS THEN Ret(w, DRREG_ERROR_OUT_OF_SLOTS)
    ELSE LET w1 == [w EXCEPT !.pt.reg[reg].in_use = TRUE]
             w2 == IF already_spilled THEN w1
                   ELSE IF ops.conservative \/ LiveNow(w1.pt, reg) = REG_LIVE
                   THEN [spill_reg_directly(w1, reg, slot, where)
                            EXCEPT !.pt.reg[reg].ever_spilled = TRUE]
                   ELSE [w1 EXCEPT !.pt.slot_use[slot] = reg,
                                   !.pt.reg[reg].ever_spilled = FALSE]
         IN [w2 EXCEPT !.pt.reg[reg].native = FALSE, !.pt.reg[reg].xchg = DR_REG_NULL,
                       !.pt.reg[reg].slot = slot, !.res = DRREG_SUCCESS, !.out = reg])

drreg_reserve_gpr_internal(w, where, reg_allowed, only_if_no_spill) ==
    LET p == w.pt IN
    With(PendingChoice(p, reg_allowed, only_if_no_spill), LAMBDA pend :
    IF pend # DR_REG_NULL
    THEN ReserveGprTail([w EXCEPT !.pt.pending_unreserved = @ - 1], where, pend,
                        p.reg[pend].slot, p.reg[pend].ever_spilled)
    ELSE With(DeadOrLeastUsed(p, reg_allowed, only_if_no_spill), LAMBDA reg :
         IF reg # DR_REG_NULL THEN ReserveGprTail(w, where, reg, MAX_SPILLS, FALSE)
         ELSE IF /\ ~p.aflags.in_use /\ p.reg[DR_REG_XAX].in_use
                 /\ p.aflags.xchg = DR_REG_XAX /\ Allowed(reg_allowed, DR_REG_XAX)
         THEN ReserveGprTail(drreg_move_aflags_from_reg(w, where, TRUE), where,
                             DR_REG_XAX, MAX_SPILLS, FALSE)
         ELSE Ret(w, DRREG_ERROR_REG_CONFLICT)))


----------------------------------------------------------------------------
(* Arithmetic flags *)

AflagsNow(p) == aflags_get_entry(p.aflags.live, p.live_idx)
XaxLiveOrConservative(p) == ops.conservative \/ LiveNow(p, DR_REG_XAX) = REG_LIVE

drreg_move_aflags_from_reg(w, where, stateful) ==
    With(IF w.pt.aflags.in_use \/ ~stateful
         THEN spill_reg_directly(w, DR_REG_XAX, AFLAGS_SLOT, where)
         ELSE IF ~w.pt.aflags.native
         THEN With(drreg_restore_aflags(w, where, TRUE), LAMBDA r :
              [(IF r.res # DRREG_SUCCESS
                THEN drreg_report_error(r, r.res, "failed to restore flags before app xax")
                ELSE r)
               EXCEPT !.pt.aflags.native = TRUE, !.pt.slot_use[AFLAGS_SLOT] = DR_REG_NULL])
         ELSE w, LAMBDA w1 :
    With(IF XaxLiveOrConservative(w1.pt)
         THEN restore_reg_directly(w1, DR_REG_XAX, w1.pt.reg[DR_REG_XAX].slot, where, stateful)
         ELSE IF stateful THEN [w1 EXCEPT !.pt.slot_use[w1.pt.reg[DR_REG_XAX].slot] = DR_REG_NULL]
         ELSE w1, LAMBDA w2 :
    IF stateful
    THEN [w2 EXCEPT !.pt.reg[DR_REG_XAX].in_use = FALSE, !.pt.reg[DR_REG_XAX].native = TRUE,
                    !.pt.reg[DR_REG_XAX].ever_spilled = FALSE, !.pt.aflags.xchg = DR_REG_NULL]
    ELSE w2))

\* Wrong on purpose: the flags are parked in xax without xax being marked
\* as holding a tool value
SpillAflagsTailKeepsXaxNative(w, where, aflags, xax_swap) ==
    With(PRE(w, where, Instr("lahf", DR_REG_XAX, DR_REG_NULL, 0, 0)), LAMBDA w1 :
    With(IF EFLAGS_READ_OF \in aflags
         THEN PRE(w1, where, Instr("seto", DR_REG_XAX, DR_REG_NULL, 0, 0))
         ELSE w1, LAMBDA w2 :
    IF xax_swap # DR_REG_NULL
    THEN LET w3 == PRE(w2, where, Instr("xchg", xax_swap, DR_REG_XAX, 0, 0))
             w4 == spill_reg_directly(w3, xax_swap, AFLAGS_SLOT, where)
         IN drreg_unreserve_register_gpr(w4, where, xax_swap)
    ELSE [w2 EXCEPT !.pt.reg[DR_REG_XAX].in_use = TRUE,
                    !.pt.reg[DR_REG_XAX].ever_spilled = TRUE, !.pt.aflags.xchg = DR_REG_XAX,
                    !.res = DRREG_SUCCESS]))

\* drreg_spill_aflags from "PRE(ilist, where, INSTR_CREATE_lahf(drcontext))" on
SpillAflagsTail(w, where, aflags, xax_swap) ==
    With(PRE(w, where, Instr("lahf", DR_REG_XAX, DR_REG_NULL, 0, 0)), LAMBDA w1 :
    With(IF EFLAGS_READ_OF \in aflags
         THEN PRE(w1, where, Instr("seto", DR_REG_XAX, DR_REG_NULL, 0, 0))
         ELSE w1, LAMBDA w2 :
    IF xax_swap # DR_REG_NULL
    THEN LET w3 == PRE(w2, where, Instr("xchg", xax_swap, DR_REG_XAX, 0, 0))
             w4 == spill_reg_directly(w3, xax_swap, AFLAGS_SLOT, where)
         IN drreg_unreserve_register_gpr(w4, where, xax_swap)
    ELSE [w2 EXCEPT !.pt.reg[DR_REG_XAX].in_use = TRUE, !.pt.reg[DR_REG_XAX].native = FALSE,
                    !.pt.reg[DR_REG_XAX].ever_spilled = TRUE, !.pt.aflags.xchg = DR_REG_XAX,
                    !.res = DRREG_SUCCESS]))

\* drreg_spill_aflags from "if (!pt->reg[DR_REG_XAX - DR_REG_START_GPR].native)" on
SpillAflagsXax(w, where, aflags, xax_swap) ==
    IF ~w.pt.reg[DR_REG_XAX].native THEN SpillAflagsTail(w, where, aflags, xax_swap)
    ELSE IF w.pt.aflags.xchg # DR_REG_XAX
    THEN With(find_free_slot(w.pt), LAMBDA xax_slot :
         IF xax_slot = MAX_SPILLS THEN Ret(w, DRREG_ERROR_OUT_OF_SLOTS)
         ELSE LET w1 == IF XaxLiveOrConservative(w.pt)
                        THEN spill_reg_directly(w, DR_REG_XAX, xax_slot, where)
                        ELSE [w EXCEPT !.pt.slot_use[xax_slot] = DR_REG_XAX]
              IN SpillAflagsTail([w1 EXCEPT !.pt.reg[DR_REG_XAX].slot = xax_slot],
                                 where, aflags, xax_swap))
    ELSE SpillAflagsTail(w, where, aflags, xax_swap)

\* Wrong on purpose: the xchg is emitted before the status of the
\* reservation of the swap register is looked at
SpillAflagsEmitsFirst(w, where) ==
    LET aflags == AflagsNow(w.pt) IN
    IF w.pt.reg[DR_REG_XAX].in_use /\ w.pt.aflags.xchg # DR_REG_XAX
    THEN With(drreg_reserve_reg_internal_gpr(w, where, NULL_VECTOR, FALSE), LAMBDA w1 :
         With(PRE(w1, where, Instr("xchg", DR_REG_XAX, w1.out, 0, 0)), LAMBDA w2 :
         IF w1.res # DRREG_SUCCESS THEN w2
         ELSE SpillAflagsXax(w2, where, aflags, w1.out)))
    ELSE SpillAflagsXax(w, where, aflags, DR_REG_NULL)

drreg_spill_aflags(w, where) ==
    LET aflags == AflagsNow(w.pt) IN
    IF w.pt.reg[DR_REG_XAX].in_use /\ w.pt.aflags.xchg # DR_REG_XAX
    THEN With(drreg_reserve_reg_internal_gpr(w, where, NULL_VECTOR, FALSE), LAMBDA w1 :
         IF w1.res # DRREG_SUCCESS THEN w1
         ELSE SpillAflagsXax(PRE(w1, where, Instr("xchg", DR_REG_XAX, w1.out, 0, 0)),
                             where, aflags, w1.out))
    ELSE SpillAflagsXax(w, where, aflags, DR_REG_NULL)

\* drreg_restore_aflags from "if (TEST(EFLAGS_READ_OF, aflags))" on
RestoreAflagsTail(w, where, release, aflags, temp_slot, xax_swap) ==
    LET w1 == IF EFLAGS_READ_OF \in aflags
              THEN PRE(w, where, Instr("cmp", DR_REG_XAX, DR_REG_NULL, 0, 0))
              ELSE w
    IN With(PRE(w1, where, Instr("sahf", DR_REG_XAX, DR_REG_NULL, 0, 0)), LAMBDA w2 :
       IF xax_swap # DR_REG_NULL
       THEN drreg_unreserve_register_gpr(
                PRE(w2, where, Instr("xchg", xax_swap, DR_REG_XAX, 0, 0)), where, xax_swap)
       ELSE IF w2.pt.aflags.xchg = DR_REG_XAX
       THEN IF release
            THEN [w2 EXCEPT !.pt.aflags.xchg = DR_REG_NULL, !.pt.reg[DR_REG_XAX].in_use = FALSE,
                            !.res = DRREG_SUCCESS]
            ELSE Ret(w2, DRREG_SUCCESS)
       ELSE IF XaxLiveOrConservative(w2.pt)
       THEN Ret(restore_reg_directly(w2, DR_REG_XAX, temp_slot, where, TRUE), DRREG_SUCCESS)
       ELSE Ret(w2, DRREG_SUCCESS))

drreg_restore_aflags(w, where, release) ==
    LET aflags == AflagsNow(w.pt) IN
    IF w.pt.aflags.native THEN Ret(w, DRREG_SUCCESS)
    ELSE IF w.pt.aflags.xchg = DR_REG_XAX
    THEN RestoreAflagsTail(w, where, release, aflags, 0, DR_REG_NULL)
    ELSE With(find_free_slot(w.pt), LAMBDA temp_slot :
         IF temp_slot = MAX_SPILLS THEN Ret(w, DRREG_ERROR_OUT_OF_SLOTS)
         ELSE IF w.pt.reg[DR_REG_XAX].in_use
         THEN With(drreg_reserve_reg_internal_gpr(w, where, NULL_VECTOR, FALSE), LAMBDA w1 :
              IF w1.res # DRREG_SUCCESS THEN w1
              ELSE RestoreAflagsTail(
                       restore_reg_directly(
                           PRE(w1, where, Instr("xchg", DR_REG_XAX, w1.out, 0, 0)),
                           DR_REG_XAX, AFLAGS_SLOT, where, release),
                       where, release, aflags, temp_slot, w1.out))
         ELSE LET w1 == IF XaxLiveOrConservative(w.pt)
                        THEN spill_reg_directly(w, DR_REG_XAX, temp_slot, where)
                        ELSE w
              IN RestoreAflagsTail(
                     restore_reg_directly(w1, DR_REG_XAX, AFLAGS_SLOT, where, release),
                     where, release, aflags, temp_slot, DR_REG_NULL))

\* Wrong on purpose: drreg_reserve_aflags that answers a second reservation
\* with the status of the GPR path
ReserveAflagsConflict(w0, where) ==
    With(ForwardUnlessInsertion(w0, where), LAMBDA w :
    LET p == w.pt
        aflags == AflagsNow(p) IN
    IF p.aflags.in_use THEN Ret(w, DRREG_ERROR_REG_CONFLICT)
    ELSE IF aflags \cap EFLAGS_READ_ARITH = {}
    THEN [w EXCEPT !.pt.slot_use[AFLAGS_SLOT] = IF ~p.aflags.native THEN DR_REG_NULL ELSE @,
                   !.pt.aflags.in_use = TRUE, !.pt.aflags.native = TRUE,
                   !.res = DRREG_SUCCESS]
    ELSE IF ~p.aflags.native \/ (p.reg[DR_REG_XAX].in_use /\ p.aflags.xchg = DR_REG_XAX)
    THEN [w EXCEPT !.pt.aflags.native = FALSE, !.pt.aflags.in_use = TRUE, !.res = DRREG_SUCCESS]
    ELSE With(drreg_spill_aflags([w EXCEPT !.pt.aflags.xchg = DR_REG_NULL], where), LAMBDA w1 :
         IF w1.res # DRREG_SUCCESS THEN w1
         ELSE [w1 EXCEPT !.pt.aflags.in_use = TRUE, !.pt.aflags.native = FALSE,
                         !.pt.aflags.slot = AFLAGS_SLOT, !.res = DRREG_SUCCESS]))

drreg_reserve_aflags(w0, where) ==
    With(ForwardUnlessInsertion(w0, where), LAMBDA w :
    LET p == w.pt
        aflags == AflagsNow(p) IN
    IF p.aflags.in_use THEN Ret(w, DRREG_ERROR_IN_USE)
    ELSE IF aflags \cap EFLAGS_READ_ARITH = {}
    THEN [w EXCEPT !.pt.slot_use[AFLAGS_SLOT] = IF ~p.aflags.native THEN DR_REG_NULL ELSE @,
                   !.pt.aflags.in_use = TRUE, !.pt.aflags.native = TRUE,
                   !.res = DRREG_SUCCESS]
    ELSE IF ~p.aflags.native \/ (p.reg[DR_REG_XAX].in_use /\ p.aflags.xchg = DR_REG_XAX)
    THEN [w EXCEPT !.pt.aflags.native = FALSE, !.pt.aflags.in_use = TRUE, !.res = DRREG_SUCCESS]
    ELSE With(drreg_spill_aflags([w EXCEPT !.pt.aflags.xchg = DR_REG_NULL], where), LAMBDA w1 :
         IF w1.res # DRREG_SUCCESS THEN w1
         ELSE [w1 EXCEPT !.pt.aflags.in_use = TRUE, !.pt.aflags.native = FALSE,
                         !.pt.aflags.slot = AFLAGS_SLOT, !.res = DRREG_SUCCESS]))

drreg_unreserve_aflags(w, where) ==
    IF ~w.pt.aflags.in_use THEN Ret(w, DRREG_ERROR_INVALID_PARAMETER)
    ELSE LET w1 == [w EXCEPT !.pt.aflags.in_use = FALSE] IN
         IF phase # "insertion"
         THEN LET w2 == IF w1.pt.aflags.xchg # DR_REG_NULL
                        THEN drreg_move_aflags_from_reg(w1, where, TRUE)
                        ELSE IF ~w1.pt.aflags.native
                        THEN [drreg_restore_aflags(w1, where, TRUE) EXCEPT !.pt.aflags.native = TRUE]
                        ELSE w1
              IN [w2 EXCEPT !.pt.slot_use[AFLAGS_SLOT] = DR_REG_NULL, !.res = DRREG_SUCCESS]
         ELSE Ret(w1, DRREG_SUCCESS)


----------------------------------------------------------------------------
(* Indirect (SIMD) spills and restores, reservation of a SIMD register *)

DRREG_GPR_SPILL_CLASS == "GPR"
DRREG_SIMD_XMM_SPILL_CLASS == "XMM"
DRREG_SIMD_YMM_SPILL_CLASS == "YMM"
DRREG_SIMD_ZMM_SPILL_CLASS == "ZMM"
DRREG_INVALID_SPILL_CLASS == "INVALID"

\* load_indirect_block: the pointer to the SIMD block is read from its hidden TLS slot
load_indirect_block(w, where, scratch_block_reg) ==
    PRE(w, where, Instr("load_block", scratch_block_reg, DR_REG_NULL, 0, 0))

\* Wrong on purpose: the scratch register is released before the SIMD move
SpillIndirectlyReleasesFirst(w, reg, slot, where) ==
    IF w.err # "none" THEN w
    ELSE With(drreg_reserve_reg_internal_gpr(w, where, NULL_VECTOR, FALSE), LAMBDA r :
         IF r.res # DRREG_SUCCESS
         THEN drreg_report_error(r, r.res, "failed to reserve tmp register")
         ELSE LET scratch_block_reg == r.out
                  w1 == load_indirect_block(r, where, scratch_block_reg)
              IN With([w1 EXCEPT !.pt.simd_slot_use[slot] = reg], LAMBDA w2 :
                 With(drreg_unreserve_register_gpr(w2, where, scratch_block_reg), LAMBDA w4 :
                    IF w4.res # DRREG_SUCCESS
                    THEN drreg_report_error(w4, w4.res, "failed to unreserve tmp register")
                    ELSE IF reg_is_strictly_xmm(reg)
                    THEN PRE(w4, where, Instr("movdqa_store", reg, scratch_block_reg, slot, 0))
                    ELSE w4)))

spill_reg_indirectly(w, reg, slot, where) ==
    IF w.err # "none" THEN w
    ELSE With(drreg_reserve_reg_internal_gpr(w, where, NULL_VECTOR, FALSE), LAMBDA r :
         IF r.res # DRREG_SUCCESS
         THEN drreg_report_error(r, r.res, "failed to reserve tmp register")
         ELSE LET scratch_block_reg == r.out
                  w1 == load_indirect_block(r, where, scratch_block_reg)
              IN With([w1 EXCEPT !.pt.simd_slot_use[slot] = reg], LAMBDA w2 :
                 LET w3 == IF reg_is_strictly_xmm(reg)
                           THEN PRE(w2, where, Instr("movdqa_store", reg, scratch_block_reg, slot, 0))
                           ELSE w2
                 IN With(drreg_unreserve_register_gpr(w3, where, scratch_block_reg), LAMBDA w4 :
                    IF w4.res # DRREG_SUCCESS
                    THEN drreg_report_error(w4, w4.res, "failed to unreserve tmp register")
                    ELSE w4)))

restore_reg_indirectly(w, reg, slot, where, release) ==
    IF w.err # "none" THEN w
    ELSE With(drreg_reserve_reg_internal_gpr(w, where, NULL_VECTOR, FALSE), LAMBDA r :
         IF r.res # DRREG_SUCCESS
         THEN drreg_report_error(r, r.res, "failed to reserve scratch block register")
         ELSE LET scratch_block_reg == r.out IN
              With(load_indirect_block(r, where, scratch_block_reg), LAMBDA w1 :
              With(IF release /\ w1.pt.simd_slot_use[slot] = reg
                   THEN [w1 EXCEPT !.pt.simd_slot_use[slot] = DR_REG_NULL]
                   ELSE w1, LAMBDA w2 :
              LET w3 == IF reg_is_strictly_xmm(reg)
                        THEN PRE(w2, where, Instr("movdqa_load", reg, scratch_block_reg, slot, 0))
                        ELSE w2
              IN With(drreg_unreserve_register_gpr(w3, where, scratch_block_reg), LAMBDA w4 :
                 IF w4.res # DRREG_SUCCESS
                 THEN drreg_report_error(w4, w4.res, "failed to unreserve tmp register")
                 ELSE w4))))

get_simd_dead_state(spill_class) ==
    IF spill_class = DRREG_SIMD_XMM_SPILL_CLASS THEN SIMD_XMM_DEAD
    ELSE IF spill_class = DRREG_SIMD_YMM_SPILL_CLASS THEN SIMD_YMM_DEAD
    ELSE IF spill_class = DRREG_SIMD_ZMM_SPILL_CLASS THEN SIMD_ZMM_DEAD
    ELSE SIMD_UNKNOWN

get_spill_class(reg) ==
    IF reg_is_gpr(reg) THEN DRREG_GPR_SPILL_CLASS
    ELSE IF reg_is_strictly_xmm(reg) THEN DRREG_SIMD_XMM_SPILL_CLASS
    ELSE IF reg_is_strictly_ymm(reg) THEN DRREG_SIMD_YMM_SPILL_CLASS
    ELSE IF reg_is_strictly_zmm(reg) THEN DRREG_SIMD_ZMM_SPILL_CLASS
    ELSE DRREG_INVALID_SPILL_CLASS

SIMD_ORD(z) == CHOOSE i \in DOMAIN SIMDSeq : SIMDSeq[i] = z
FirstSimd(S) ==
    IF S = {} THEN DR_REG_NULL ELSE CHOOSE r \in S : \A q \in S : SIMD_ORD(r) <= SIMD_ORD(q)

SimdLiveNow(p, z) == drvector_get_entry(p.simd_reg[z].live, p.live_idx)
SimdDeadFor(p, z, dead_state) ==
    SimdLiveNow(p, z) >= dead_state /\ SimdLiveNow(p, z) <= SIMD_ZMM_DEAD

\* [res, pt, slot, reg, already_spilled]: the status, the per-thread state
\* (the pending counter may have been decremented) and the OUT values
drreg_find_for_simd_reservation(p, spill_class, reg_allowed, only_if_no_spill) ==
    LET dead_state == get_simd_dead_state(spill_class)
        fail(res) == [res |-> res, pt |-> p, slot |-> MAX_SIMD_SPILLS, reg |-> DR_REG_NULL,
                      already_spilled |-> FALSE]
        pend == IF p.simd_pending_unreserved > 0
                THEN FirstSimd({z \in SIMDs :
                        /\ ~p.simd_reg[z].native /\ ~p.simd_reg[z].in_use
                        /\ Allowed(reg_allowed, z)
                        /\ (~only_if_no_spill \/ p.simd_reg[z].ever_spilled
                            \/ SimdDeadFor(p, z, dead_state))})
                ELSE DR_REG_NULL
        C == {z \in SIMDs : ~p.simd_reg[z].in_use /\ Allowed(reg_allowed, z)}
        dead == FirstSimd({z \in C : SimdDeadFor(p, z, dead_state)})
        best == IF dead # DR_REG_NULL THEN dead
                ELSE IF only_if_no_spill THEN DR_REG_NULL
                ELSE FirstSimd({z \in C : \A q \in C :
                                    p.simd_reg[z].app_uses <= p.simd_reg[q].app_uses})
        size == IF spill_class = DRREG_SIMD_XMM_SPILL_CLASS THEN "OPSZ_16"
                ELSE IF spill_class = DRREG_SIMD_YMM_SPILL_CLASS THEN "OPSZ_32"
                ELSE "OPSZ_64"
    IN
    IF ops.num_spill_simd_slots = 0 THEN fail(DRREG_ERROR)
    ELSE IF dead_state = SIMD_UNKNOWN THEN fail(DRREG_ERROR)
    ELSE IF pend # DR_REG_NULL
    THEN LET slot == p.simd_reg[pend].slot IN
         [res |-> DRREG_SUCCESS,
          pt |-> [p EXCEPT !.simd_pending_unreserved = @ - 1],
          slot |-> slot, reg |-> reg_resize_to_opsz(pend, size),
          already_spilled |-> p.simd_reg[pend].ever_spilled
                              /\ get_spill_class(p.simd_slot_use[slot]) = spill_class]
    ELSE IF best = DR_REG_NULL THEN fail(DRREG_ERROR_REG_CONFLICT)
    ELSE IF find_simd_free_slot(p) = MAX_SIMD_SPILLS THEN fail(DRREG_ERROR_OUT_OF_SLOTS)
    ELSE [res |-> DRREG_SUCCESS, pt |-> p, slot |-> find_simd_free_slot(p),
          reg |-> reg_resize_to_opsz(best, size), already_spilled |-> FALSE]

drreg_reserve_simd_reg_internal(w, spill_class, where, reg_allowed, only_if_no_spill) ==
    With(drreg_find_for_simd_reservation(w.pt, spill_class, reg_allowed, only_if_no_spill),
         LAMBDA f :
    IF f.res # DRREG_SUCCESS THEN Ret(w, f.res)
    ELSE With(SIMD_IDX(f.reg), LAMBDA z :
         With([w EXCEPT !.pt = [f.pt EXCEPT !.simd_reg[z].in_use = TRUE]], LAMBDA w1 :
         LET w2 == IF f.already_spilled THEN w1
                   ELSE IF ops.conservative
                           \/ (SimdLiveNow(w1.pt, z) >= SIMD_XMM_LIVE
                               /\ SimdLiveNow(w1.pt, z) <= SIMD_ZMM_LIVE)
                   THEN [spill_reg_indirectly(w1, f.reg, f.slot, where)
                            EXCEPT !.pt.simd_reg[z].ever_spilled = TRUE]
                   ELSE [w1 EXCEPT !.pt.simd_slot_use[f.slot] = f.reg,
                                   !.pt.simd_reg[z].ever_spilled = FALSE]
         IN [w2 EXCEPT !.pt.simd_reg[z].native = FALSE, !.pt.simd_reg[z].xchg = DR_REG_NULL,
                       !.pt.simd_reg[z].slot = f.slot, !.res = DRREG_SUCCESS, !.out = f.reg])))

drreg_reserve_reg_internal(w, spill_class, where, reg_allowed, only_if_no_spill) ==
    IF spill_class = DRREG_GPR_SPILL_CLASS
    THEN drreg_reserve_gpr_internal(w, where, reg_allowed, only_if_no_spill)
    ELSE IF spill_class \in {DRREG_SIMD_XMM_SPILL_CLASS, DRREG_SIMD_YMM_SPILL_CLASS,
                             DRREG_SIMD_ZMM_SPILL_CLASS}
    THEN drreg_reserve_simd_reg_internal(w, spill_class, where, reg_allowed, only_if_no_spill)
    ELSE Ret(w, DRREG_ERROR)

drreg_restore_reg_now(w, inst, reg) ==
    IF reg_is_gpr(reg) THEN drreg_restore_reg_now_gpr(w, inst, reg)
    ELSE LET z == SIMD_IDX(reg)
             slot == w.pt.simd_reg[z].slot
             w1 == IF w.pt.simd_reg[z].ever_spilled
                   THEN restore_reg_indirectly(w, w.pt.simd_slot_use[slot], slot, inst, TRUE)
                   ELSE [w EXCEPT !.pt.simd_slot_use[slot] = DR_REG_NULL]
         IN Ret([w1 EXCEPT !.pt.simd_reg[z].native = TRUE], DRREG_SUCCESS)

drreg_unreserve_register(w, where, reg) ==
    IF reg_is_gpr(reg) THEN drreg_unreserve_register_gpr(w, where, reg)
    ELSE LET z == SIMD_IDX(reg) IN
         IF ~w.pt.simd_reg[z].in_use THEN Ret(w, DRREG_ERROR_INVALID_PARAMETER)
         ELSE IF phase # "insertion"
         THEN With(drreg_restore_reg_now(w, where, reg), LAMBDA w1 :
              IF w1.res # DRREG_SUCCESS THEN w1
              ELSE Ret([w1 EXCEPT !.pt.simd_reg[z].in_use = FALSE], DRREG_SUCCESS))
         ELSE Ret([w EXCEPT !.pt.simd_pending_unreserved = @ + 1,
                            !.pt.simd_reg[z].in_use = FALSE], DRREG_SUCCESS)


----------------------------------------------------------------------------
(* drreg_event_bb_insert_late *)

\* instr_t *next = instr_get_next(inst): NULL is the position past the last one
NextOf(k) == At(k + 1)

SimdAliases(z) == {SimdNames[z][o] : o \in OpSizes}
ReadsSimd(inst, z) == inst.srd \cap SimdAliases(z) # {}
WritesSimd(inst, z) == inst.swr \cap SimdAliases(z) # {}

\* Wrong on purpose: only the block's own branches count, not the hint
MustRestoreForInternalFlow(p) ==
    p.bb_has_internal_flow /\ DRREG_IGNORE_CONTROL_FLOW \notin p.bb_props

\* (bb_has_internal_flow && !IGNORE_CONTROL_FLOW) || CONTAINS_SPANNING_CONTROL_FLOW
MustRestoreForFlow(p) ==
    \/ p.bb_has_internal_flow /\ DRREG_IGNORE_CONTROL_FLOW \notin p.bb_props
    \/ DRREG_CONTAINS_SPANNING_CONTROL_FLOW \in p.bb_props

\* Wrong on purpose: the restore of the flags without "at end of bb"
AflagsNotRestoredAtEnd(w, k) ==
    LET p == w.pt
        inst == block[k]
        aflags == AflagsNow(p) IN
    IF /\ ~p.aflags.native
       /\ \/ inst.frd # {}
          \/ inst.fwr # {} /\ aflags # {}
          \/ p.aflags.slot >= ops.num_spill_slots
    THEN With(drreg_restore_aflags(w, At(k), FALSE), LAMBDA r :
         With(IF r.res # DRREG_SUCCESS
              THEN drreg_report_error(r, r.res, "failed to restore flags before app read")
              ELSE r, LAMBDA r1 :
         IF ~r1.pt.aflags.in_use
         THEN [r1 EXCEPT !.pt.aflags.native = TRUE, !.pt.slot_use[AFLAGS_SLOT] = DR_REG_NULL]
         ELSE r1))
    ELSE w

\* "Before each app read, or at end of bb, restore aflags to app value"
LateAflagsRestore(w, k) ==
    LET p == w.pt
        inst == block[k]
        aflags == AflagsNow(p) IN
    IF /\ ~p.aflags.native
       /\ \/ drmgr_is_last_instr(k)
          \/ inst.frd # {}
          \/ inst.fwr # {} /\ aflags # {}
          \/ p.aflags.slot >= ops.num_spill_slots
    THEN With(drreg_restore_aflags(w, At(k), FALSE), LAMBDA r :
         With(IF r.res # DRREG_SUCCESS
              THEN drreg_report_error(r, r.res, "failed to restore flags before app read")
              ELSE r, LAMBDA r1 :
         IF ~r1.pt.aflags.in_use
         THEN [r1 EXCEPT !.pt.aflags.native = TRUE, !.pt.slot_use[AFLAGS_SLOT] = DR_REG_NULL]
         ELSE r1))
    ELSE w

\* One iteration of the SIMD loop "restore spilled registers to app values"
LateSimdRead(w, k, z) ==
    LET p == w.pt
        inst == block[k] IN
    IF w.err # "none" \/ p.simd_reg[z].native THEN w
    ELSE IF \/ drmgr_is_last_instr(k)
            \/ ReadsSimd(inst, z)
            \/ ~p.simd_reg[z].in_use /\ MustRestoreForFlow(p)
    THEN IF ~p.simd_reg[z].in_use
         THEN With(drreg_restore_reg_now(w, At(k), z), LAMBDA r :
              [(IF r.res # DRREG_SUCCESS
                THEN drreg_report_error(r, r.res, "lazy restore failed") ELSE r)
               EXCEPT !.pt.simd_pending_unreserved = @ - 1])
         ELSE LET spilled_reg == p.simd_slot_use[p.simd_reg[z].slot]
                  tmp_slot == find_simd_free_slot(p)
                  w0 == IF tmp_slot = MAX_SIMD_SPILLS
                        THEN drreg_report_error(w, DRREG_ERROR_OUT_OF_SLOTS,
                                                "failed to preserve tool val around app read")
                        ELSE w
              IN With(spill_reg_indirectly(Noting(w0, "simd_tool_spill"), spilled_reg, tmp_slot,
                                           At(k)), LAMBDA w1 :
                 LET w2 == restore_reg_indirectly(Noting(w1, "simd_app_restore"), spilled_reg,
                                                  w1.pt.simd_reg[z].slot, At(k), FALSE)
                     w3 == restore_reg_indirectly(Noting(w2, "simd_tool_restore"), spilled_reg,
                                                  tmp_slot, NextOf(k), TRUE)
                 IN [Noting(w3, "") EXCEPT !.restored_for_simd_read = @ \cup {z}])
    ELSE w

\* Wrong on purpose: the lazy restore leaves the pending-unreserved counter alone
LateGprReadKeepsCount(w, k, reg) ==
    LET p == w.pt
        inst == block[k] IN
    IF w.err # "none" \/ p.reg[reg].native THEN w
    ELSE IF \/ drmgr_is_last_instr(k)
            \/ reg \in inst.rd
            \/ reg \in inst.wr /\ reg \notin inst.wrx
            \/ reg \in inst.wr /\ reg \in inst.wrc
            \/ ~p.reg[reg].in_use /\ MustRestoreForFlow(p)
            \/ p.reg[reg].slot >= ops.num_spill_slots
    THEN IF ~p.reg[reg].in_use
         THEN With(drreg_restore_reg_now(w, At(k), reg), LAMBDA r :
              IF r.res # DRREG_SUCCESS
              THEN drreg_report_error(r, r.res, "lazy restore failed") ELSE r)
         ELSE IF p.aflags.xchg = reg
         THEN drreg_move_aflags_from_reg(w, At(k), TRUE)
         ELSE LET tmp_slot == find_free_slot(p)
                  w0 == IF tmp_slot = MAX_SPILLS
                        THEN drreg_report_error(w, DRREG_ERROR_OUT_OF_SLOTS,
                                                "failed to preserve tool val around app read")
                        ELSE w
              IN With(spill_reg_directly(Noting(w0, "tool_spill"), reg, tmp_slot, At(k)),
                      LAMBDA w1 :
                 LET w2 == restore_reg_directly(Noting(w1, "app_restore"), reg,
                                                w1.pt.reg[reg].slot, At(k), FALSE)
                     w3 == restore_reg_directly(Noting(w2, "tool_restore"), reg, tmp_slot,
                                                NextOf(k), TRUE)
                 IN [Noting(w3, "") EXCEPT !.restored_for_read = @ \cup {reg}])
    ELSE w

\* One iteration of the GPR loop "restore spilled registers to app values"
LateGprRead(w, k, reg) ==
    LET p == w.pt
        inst == block[k] IN
    IF w.err # "none" \/ p.reg[reg].native THEN w
    ELSE IF \/ drmgr_is_last_instr(k)
            \/ reg \in inst.rd
            \/ reg \in inst.wr /\ reg \notin inst.wrx
            \/ reg \in inst.wr /\ reg \in inst.wrc
            \/ ~p.reg[reg].in_use /\ MustRestoreForFlow(p)
            \/ p.reg[reg].slot >= ops.num_spill_slots
    THEN IF ~p.reg[reg].in_use
         THEN With(drreg_restore_reg_now(w, At(k), reg), LAMBDA r :
              [(IF r.res # DRREG_SUCCESS
                THEN drreg_report_error(r, r.res, "lazy restore failed") ELSE r)
               EXCEPT !.pt.pending_unreserved = @ - 1])
         ELSE IF p.aflags.xchg = reg
         THEN drreg_move_aflags_from_reg(w, At(k), TRUE)
         ELSE LET tmp_slot == find_free_slot(p)
                  w0 == IF tmp_slot = MAX_SPILLS
                        THEN drreg_report_error(w, DRREG_ERROR_OUT_OF_SLOTS,
                                                "failed to preserve tool val around app read")
                        ELSE w
              IN With(spill_reg_directly(Noting(w0, "tool_spill"), reg, tmp_slot, At(k)),
                      LAMBDA w1 :
                 LET w2 == restore_reg_directly(Noting(w1, "app_restore"), reg,
                                                w1.pt.reg[reg].slot, At(k), FALSE)
                     w3 == restore_reg_directly(Noting(w2, "tool_restore"), reg, tmp_slot,
                                                NextOf(k), TRUE)
                 IN [Noting(w3, "") EXCEPT !.restored_for_read = @ \cup {reg}])
    ELSE w

\* "After aflags write by app, update spilled app value"
\* Wrong on purpose: the aflags are given up after an application write even
\* when a client holds them
LateAflagsWriteGivesUp(w, k) ==
    LET p == w.pt
        inst == block[k]
        xax_has_aflags == p.reg[DR_REG_XAX].in_use /\ p.aflags.xchg = DR_REG_XAX IN
    IF w.err # "none" THEN w
    ELSE IF /\ inst.fwr # {}
            /\ (p.live_idx = 0 \/ aflags_get_entry(p.aflags.live, p.live_idx - 1) # {})
            /\ (p.aflags.in_use \/ ~p.aflags.native \/ p.slot_use[AFLAGS_SLOT] # DR_REG_NULL
                \/ xax_has_aflags)
    THEN LET w1 == IF xax_has_aflags THEN drreg_move_aflags_from_reg(w, At(k), TRUE) ELSE w
         IN [w1 EXCEPT !.pt.slot_use[AFLAGS_SLOT] = DR_REG_NULL, !.pt.aflags.native = TRUE]
    ELSE w

LateAflagsWrite(w, k) ==
    LET p == w.pt
        inst == block[k]
        xax_has_aflags == p.reg[DR_REG_XAX].in_use /\ p.aflags.xchg = DR_REG_XAX IN
    IF w.err # "none" THEN w
    ELSE IF /\ inst.fwr # {}
            /\ (p.live_idx = 0 \/ aflags_get_entry(p.aflags.live, p.live_idx - 1) # {})
    THEN IF p.aflags.in_use
         THEN With(drreg_spill_aflags(Noting(w, "aflags_respill"), NextOf(k)), LAMBDA r :
              LET r1 == IF r.res # DRREG_SUCCESS
                        THEN drreg_report_error(r, r.res, "failed to spill aflags after app write")
                        ELSE r
              IN [Noting(r1, "") EXCEPT !.pt.aflags.native = FALSE])
         ELSE IF ~p.aflags.native \/ p.slot_use[AFLAGS_SLOT] # DR_REG_NULL \/ xax_has_aflags
         THEN LET w1 == IF xax_has_aflags THEN drreg_move_aflags_from_reg(w, At(k), TRUE) ELSE w
              IN [w1 EXCEPT !.pt.slot_use[AFLAGS_SLOT] = DR_REG_NULL, !.pt.aflags.native = TRUE]
         ELSE w
    ELSE w


\* "Don't bother if reg is dead beyond this write": the SIMD test
SimdDeadBeyond(spilled_reg, state) ==
    \/ reg_is_strictly_xmm(spilled_reg) /\ state >= SIMD_XMM_DEAD /\ state <= SIMD_ZMM_DEAD
    \/ reg_is_strictly_ymm(spilled_reg) /\ state >= SIMD_YMM_DEAD /\ state <= SIMD_ZMM_DEAD
    \/ reg_is_strictly_zmm(spilled_reg) /\ state = SIMD_ZMM_DEAD

\* One iteration of the SIMD loop "After each app write, update spilled app values"
LateSimdWrite(w, k, z) ==
    LET p == w.pt
        inst == block[k] IN
    IF w.err # "none" THEN w
    ELSE IF p.simd_reg[z].in_use
    THEN LET state == drvector_get_entry(p.simd_reg[z].live, p.live_idx - 1)
             spilled_reg == p.simd_slot_use[p.simd_reg[z].slot]
             shared == z \in w.restored_for_simd_read IN
         IF /\ WritesSimd(inst, z)
            /\ (ops.conservative \/ p.live_idx = 0 \/ ~SimdDeadBeyond(spilled_reg, state))
         THEN LET tmp_slot == IF shared THEN MAX_SIMD_SPILLS ELSE find_simd_free_slot(p)
                  w0 == IF ~shared /\ tmp_slot = MAX_SIMD_SPILLS
                        THEN drreg_report_error(w, DRREG_ERROR_OUT_OF_SLOTS,
                                                "failed to preserve tool val wrt app write")
                        ELSE w
              IN With(IF shared THEN w0
                      ELSE spill_reg_indirectly(Noting(w0, "simd_tool_spill"), spilled_reg,
                                                tmp_slot, At(k)), LAMBDA w1 :
                 LET w2 == spill_reg_indirectly(Noting(w1, "simd_app_respill"), spilled_reg,
                                                w1.pt.simd_reg[z].slot,
                                                IF shared THEN PrevOf(k + 1) ELSE NextOf(k))
                 IN With([w2 EXCEPT !.pt.simd_reg[z].ever_spilled = TRUE], LAMBDA w3 :
                    Noting(IF shared THEN w3
                           ELSE restore_reg_indirectly(Noting(w3, "simd_tool_restore"),
                                                       spilled_reg, tmp_slot, NextOf(k), TRUE),
                           "")))
         ELSE w
    ELSE IF ~p.simd_reg[z].native /\ WritesSimd(inst, z)
    THEN With(drreg_restore_reg_now([w EXCEPT !.pt.simd_reg[z].ever_spilled = FALSE], At(k), z),
              LAMBDA r :
         [(IF r.res # DRREG_SUCCESS
           THEN drreg_report_error(r, r.res, "slot release on app write failed") ELSE r)
          EXCEPT !.pt.simd_pending_unreserved = @ - 1])
    ELSE w

\* One iteration of the GPR loop "After each app write, update spilled app values"
LateGprWrite(w, k, reg) ==
    LET p == w.pt
        inst == block[k]
        shared == reg \in w.restored_for_read IN
    IF w.err # "none" THEN w
    ELSE IF p.reg[reg].in_use
    THEN IF /\ reg \in inst.wr
            /\ \/ ops.conservative
               \/ p.live_idx = 0
               \/ drvector_get_entry(p.reg[reg].live, p.live_idx - 1) = REG_LIVE
               \/ p.aflags.xchg = reg
         THEN IF p.aflags.xchg = reg
              THEN drreg_move_aflags_from_reg(w, At(k), TRUE)
              ELSE LET wx == IF p.reg[reg].xchg # DR_REG_NULL
                             THEN drreg_report_error(w, DRREG_ERROR_FEATURE_NOT_AVAILABLE, "xchg NYI")
                             ELSE w
                       tmp_slot == IF shared THEN MAX_SPILLS ELSE find_free_slot(p)
                       w0 == IF ~shared /\ tmp_slot = MAX_SPILLS
                             THEN drreg_report_error(wx, DRREG_ERROR_OUT_OF_SLOTS,
                                                     "failed to preserve tool val wrt app write")
                             ELSE wx
                   IN With(IF shared THEN w0
                           ELSE spill_reg_directly(Noting(w0, "tool_spill"), reg, tmp_slot,
                                                   At(k)), LAMBDA w1 :
                      With(spill_reg_directly(Noting(w1, "app_respill"), reg,
                                              w1.pt.reg[reg].slot,
                                              IF shared THEN PrevOf(k + 1) ELSE NextOf(k)),
                           LAMBDA w2 :
                      With(IF w2.err # "none" THEN w2
                           ELSE [w2 EXCEPT !.pt.reg[reg].ever_spilled = TRUE], LAMBDA w3 :
                      Noting(IF shared THEN w3
                             ELSE restore_reg_directly(Noting(w3, "tool_restore"), reg,
                                                       tmp_slot, NextOf(k), TRUE),
                             ""))))
         ELSE w
    ELSE IF ~p.reg[reg].native /\ reg \in inst.wr
    THEN With(drreg_restore_reg_now([w EXCEPT !.pt.reg[reg].ever_spilled = FALSE], At(k), reg),
              LAMBDA r :
         [(IF r.res # DRREG_SUCCESS
           THEN drreg_report_error(r, r.res, "slot release on app write failed") ELSE r)
          EXCEPT !.pt.pending_unreserved = @ - 1])
    ELSE w

\* for (reg = first; reg <= last; reg++) body(w, k, reg), over the registers of seq from i on
RECURSIVE ForEachReg(_, _, _, _, _)
ForEachReg(Body(_, _, _), w, k, seq, i) ==
    IF i > Len(seq) THEN w ELSE ForEachReg(Body, Body(w, k, seq[i]), k, seq, i + 1)

drreg_event_bb_insert_late(w, k) ==
    LET w0 == [w EXCEPT !.restored_for_read = {}, !.restored_for_simd_read = {}, !.at = k]
        w1 == LateAflagsRestore(w0, k)
        w2 == ForEachReg(LateSimdRead, w1, k, SIMDSeq, 1)
        w3 == ForEachReg(LateGprRead, w2, k, GPRSeq, 1)
        w4 == LateAflagsWrite(w3, k)
        w5 == ForEachReg(LateSimdWrite, w4, k, SIMDSeq, 1)
    IN With(ForEachReg(LateGprWrite, w5, k, GPRSeq, 1), LAMBDA w6 :
       IF w6.err # "none" THEN w6
       ELSE IF drmgr_is_last_instr(k) THEN [w6 EXCEPT !.pt.bb_props = {}]
       ELSE w6)


----------------------------------------------------------------------------
(* The state machine: drmgr walks the block, the client calls the API *)

drreg_options_t(num_spill_slots, conservative, num_spill_simd_slots) ==
    [num_spill_slots |-> num_spill_slots, conservative |-> conservative,
     num_spill_simd_slots |-> num_spill_simd_slots]

\* The options drreg_init has summed up: the client's slots and the aflags slot.
\* With fewer than MAX_SPILLS slots of its own drreg goes on to DR's slots.
OptionChoices ==
    {drreg_options_t(ManySlots, FALSE, NumSimdSlots),
     drreg_options_t(ManySlots, TRUE, NumSimdSlots),
     drreg_options_t(FewSlots, FALSE, NumSimdSlots - 1)}

IsReserve(c) ==
    c.op \in {"reserve_register", "reserve_dead_register", "reserve_simd", "reserve_aflags"}
IsUnreserve(c) == c.op \in {"unreserve_register", "unreserve_aflags"}
Succeeded(c) == c.res = DRREG_SUCCESS

\* What a call reserved or was to unreserve
Resource(c) ==
    CASE c.op \in {"reserve_aflags", "unreserve_aflags"} -> "aflags"
      [] c.op = "unreserve_register" -> CHOOSE r \in c.arg : TRUE
      [] OTHER -> c.out

\* x was reserved by one of the calls of h and not unreserved since
Outstanding(h, x) ==
    \E i \in 1..Len(h) :
        /\ IsReserve(h[i]) /\ Succeeded(h[i]) /\ Resource(h[i]) = x
        /\ \A j \in (i + 1)..Len(h) :
              ~(IsUnreserve(h[j]) /\ Succeeded(h[j]) /\ Resource(h[j]) = x)

Resources == GPRs \cup {SimdNames[z]["OPSZ_16"] : z \in SIMDs} \cup {"aflags"}

\* The in_use field of the record of x in the per-thread state p
InUseIn(p, x) ==
    IF x = "aflags" THEN p.aflags.in_use
    ELSE IF x \in GPRs THEN p.reg[x].in_use
    ELSE p.simd_reg[SIMD_IDX(x)].in_use

\* Everything is unreserved, native and every slot is free
Pristine(p) ==
    /\ \A r \in GPRs : ~p.reg[r].in_use /\ p.reg[r].native
    /\ \A z \in SIMDs : ~p.simd_reg[z].in_use /\ p.simd_reg[z].native
    /\ ~p.aflags.in_use /\ p.aflags.native
    /\ \A s \in DOMAIN p.slot_use : p.slot_use[s] = DR_REG_NULL
    /\ \A s \in DOMAIN p.simd_slot_use : p.simd_slot_use[s] = DR_REG_NULL

\* What a client may call: at most budget calls, reservations with one of the
\* vectors in allowed (GPR) or simd, unreservations of the registers in unreserve.
\* A client that keeps to the rules (misuse FALSE) does not unreserve a register
\* that drreg itself is using for the flags.
ClientProfile(budget, allowed, simd, unreserve, misuse) ==
    [budget |-> budget, allowed |-> allowed, simd |-> simd, unreserve |-> unreserve,
     misuse |-> misuse]

AnyClient ==
    ClientProfile(MaxOps, {NULL_VECTOR, {"xax"}, {"xcx"}}, {NULL_VECTOR},
                  (GPRs \ {DR_REG_XSP}) \cup {"xmm0", "xmm1"}, FALSE)

\* One API call of the client: the operation and its argument, the status and
\* register returned, the instruction it was made at, the per-thread state
\* before and after it, and the instructions it inserted
Call(op, arg, w, at, pre, emitted) ==
    [op |-> op, arg |-> arg, res |-> w.res, out |-> w.out, at |-> at,
     pre |-> pre, post |-> w.pt, emitted |-> emitted, phase |-> phase]

\* What a call inserted before the instruction it was made at
Emitted(old, new, k) ==
    SubSeq(new, PosOfApp(old, k), PosOfApp(old, k) + (Len(new) - Len(old)) - 1)

InitWith(B, O, C) ==
    /\ ops \in O
    /\ client = C
    /\ pt = tls_data_init
    /\ block \in B
    /\ ilist = <<>>
    /\ phase = "none"
    /\ pc = "idle"
    /\ cur = 0
    /\ err = "none"
    /\ hist = <<>>
    /\ drreg_init_count = 1

Init == InitWith(Blocks, OptionChoices, AnyClient)

\* drmgr's analysis phase, then the insertion phase begins at the first instruction
BBAnalysis ==
    /\ pc = "idle"
    /\ pt' = drreg_event_bb_analysis(pt, block)
    /\ ilist' = [i \in 1..Len(block) |-> AppI(i)]
    /\ phase' = "insertion"
    /\ pc' = "early"
    /\ cur' = 1
    /\ UNCHANGED <<ops, block, err, client, hist, drreg_init_count>>

InsertEarly ==
    /\ pc = "early" /\ err = "none"
    /\ pt' = drreg_event_bb_insert_early(pt, cur)
    /\ pc' = "client"
    /\ UNCHANGED <<ops, ilist, block, phase, cur, err, client, hist, drreg_init_count>>

\* The client's insertion callback may call the API at the current instruction
ClientMay == pc \in {"client", "outside"} /\ err = "none" /\ Len(hist) < client.budget

\* The state after a call that returned in world w, having emitted after
Returned(op, arg, w, after) ==
    /\ pt' = w.pt
    /\ ilist' = after
    /\ err' = w.err
    /\ hist' = Append(hist, Call(op, arg, w, cur, pt, Emitted(ilist, w.ilist, cur)))
    /\ UNCHANGED <<ops, block, phase, pc, cur, client, drreg_init_count>>

\* The instrumentation of the client puts its own value in the register it got
ToolWrites(w, op) ==
    IF w.err = "none" /\ w.res = DRREG_SUCCESS
    THEN PRE(w, At(cur), Instr(op, w.out, DR_REG_NULL, 0, Len(hist) + 1)).ilist
    ELSE w.ilist


drreg_reserve_register_ex(w, spill_class, where, reg_allowed) ==
    IF spill_class \in {DRREG_SIMD_YMM_SPILL_CLASS, DRREG_SIMD_ZMM_SPILL_CLASS}
    THEN Ret(w, DRREG_ERROR_FEATURE_NOT_AVAILABLE)
    ELSE drreg_reserve_reg_internal(ForwardUnlessInsertion(w, where), spill_class, where,
                                    reg_allowed, FALSE)

drreg_reserve_dead_register_ex(w, spill_class, where, reg_allowed) ==
    IF spill_class \in {DRREG_SIMD_YMM_SPILL_CLASS, DRREG_SIMD_ZMM_SPILL_CLASS}
    THEN Ret(w, DRREG_ERROR_FEATURE_NOT_AVAILABLE)
    ELSE drreg_reserve_reg_internal(ForwardUnlessInsertion(w, where), spill_class, where,
                                    reg_allowed, TRUE)

\* reg_is_pointer_sized: the model names the GPRs by their pointer-sized names only
reg_is_pointer_sized(reg) == reg \in GPRs

\* The record of a GPR or SIMD register, its class's pending-unreserved
\* counter and its class's slot table in a per-thread state
RecordIn(p, x) == IF x \in GPRs THEN p.reg[x] ELSE p.simd_reg[SIMD_IDX(x)]
PendingIn(p, x) == IF x \in GPRs THEN p.pending_unreserved ELSE p.simd_pending_unreserved
SlotUseIn(p, x) == IF x \in GPRs THEN p.slot_use ELSE p.simd_slot_use

\* Wrong on purpose: the slot is loaded without asking whether the register was ever stored to it
RestoreAppValueUnchecked(w, where, app_reg, dst_reg, stateful) ==
    LET r == RecordIn(w.pt, app_reg) IN
    IF r.native THEN Ret(w, DRREG_SUCCESS)
    ELSE IF reg_is_gpr(app_reg)
    THEN Ret(restore_reg_directly(w, app_reg, r.slot, where, stateful /\ ~r.in_use),
             DRREG_SUCCESS)
    ELSE Ret(restore_reg_indirectly(w, app_reg, r.slot, where, stateful /\ ~r.in_use),
             DRREG_SUCCESS)

\* drreg_restore_app_value; app_reg is never the stolen register, there is none
drreg_restore_app_value(w, where, app_reg, dst_reg, stateful) ==
    IF reg_is_gpr(app_reg) /\ (~reg_is_pointer_sized(app_reg) \/ ~reg_is_pointer_sized(dst_reg))
    THEN Ret(w, DRREG_ERROR_INVALID_PARAMETER)
    ELSE IF reg_is_gpr(app_reg)
    THEN LET r == w.pt.reg[app_reg] IN
         IF r.native
         THEN Ret(IF dst_reg # app_reg
                  THEN PRE(w, where, Instr("mov", dst_reg, app_reg, 0, 0)) ELSE w,
                  DRREG_SUCCESS)
         ELSE IF ~r.ever_spilled THEN Ret(w, DRREG_ERROR_NO_APP_VALUE)
         ELSE IF r.xchg # DR_REG_NULL THEN Ret(w, DRREG_ERROR_FEATURE_NOT_AVAILABLE)
         ELSE IF w.pt.aflags.xchg = app_reg
         THEN Ret(drreg_move_aflags_from_reg(w, where, stateful), DRREG_SUCCESS)
         ELSE With(restore_reg_directly(w, app_reg, r.slot, where, stateful /\ ~r.in_use),
                   LAMBDA w1 :
              Ret(IF stateful /\ ~r.in_use THEN [w1 EXCEPT !.pt.reg[app_reg].native = TRUE]
                  ELSE w1, DRREG_SUCCESS))
    ELSE IF ~reg_is_vector_simd(dst_reg) THEN Ret(w, DRREG_ERROR_INVALID_PARAMETER)
    ELSE LET z == SIMD_IDX(app_reg)
             r == w.pt.simd_reg[z] IN
         IF r.native
         THEN Ret(IF dst_reg # app_reg
                  THEN PRE(w, where, Instr("movdqa", dst_reg, app_reg, 0, 0)) ELSE w,
                  DRREG_SUCCESS)
         ELSE IF ~r.ever_spilled THEN Ret(w, DRREG_ERROR_NO_APP_VALUE)
         ELSE IF r.xchg # DR_REG_NULL THEN Ret(w, DRREG_ERROR_FEATURE_NOT_AVAILABLE)
         ELSE With(restore_reg_indirectly(w, app_reg, r.slot, where, stateful /\ ~r.in_use),
                   LAMBDA w1 :
              Ret(IF stateful /\ ~r.in_use THEN [w1 EXCEPT !.pt.simd_reg[z].native = TRUE]
                  ELSE w1, DRREG_SUCCESS))

drreg_get_app_value(w, where, app_reg, dst_reg) ==
    drreg_restore_app_value(w, where, app_reg, dst_reg, TRUE)

\* drreg_statelessly_restore_app_value; reg = DR_REG_NULL asks for the flags,
\* a where of NULL is the end of the list. out holds the two OUT booleans.
drreg_statelessly_restore_app_value(w, reg, where_restore, where_respill) ==
    IF where_restore.k > Len(block) \/ where_respill.k > Len(block)
    THEN Ret(w, DRREG_ERROR_INVALID_PARAMETER)
    ELSE IF reg # DR_REG_NULL /\ reg_is_gpr(reg) /\ ~reg_is_pointer_sized(reg)
    THEN Ret(w, DRREG_ERROR_INVALID_PARAMETER)
    ELSE With(IF reg = DR_REG_NULL
              THEN drreg_restore_aflags(w, where_restore, FALSE)
              ELSE drreg_restore_app_value(w, where_restore, reg, reg, FALSE), LAMBDA w1 :
         IF w1.res # DRREG_SUCCESS /\ w1.res # DRREG_ERROR_NO_APP_VALUE
         THEN [w1 EXCEPT !.out = [restore_needed |-> FALSE, respill_needed |-> FALSE]]
         ELSE IF reg # DR_REG_NULL /\ w1.pt.aflags.xchg = reg
         THEN With(restore_reg_directly(
                       [w1 EXCEPT !.pt.slot_use[AFLAGS_SLOT] = DR_REG_XAX],
                       DR_REG_XAX, AFLAGS_SLOT, where_respill, FALSE), LAMBDA w2 :
              [w2 EXCEPT !.pt.slot_use[AFLAGS_SLOT] = DR_REG_NULL,
                         !.res = w1.res,
                         !.out = [restore_needed |-> w1.res = DRREG_SUCCESS,
                                  respill_needed |-> TRUE]])
         ELSE [w1 EXCEPT !.out = [restore_needed |-> w1.res = DRREG_SUCCESS,
                                  respill_needed |-> FALSE]])

ReserveRegister ==
    /\ ClientMay
    /\ \E reg_allowed \in client.allowed :
         \E w \in {drreg_reserve_register_ex(World(pt, ilist), DRREG_GPR_SPILL_CLASS,
                                               At(cur), reg_allowed)} :
            Returned("reserve_register", reg_allowed, w, ToolWrites(w, "tool_write"))

ReserveDeadRegister ==
    /\ ClientMay
    /\ \E reg_allowed \in client.allowed :
         \E w \in {drreg_reserve_dead_register_ex(World(pt, ilist), DRREG_GPR_SPILL_CLASS,
                                                    At(cur), reg_allowed)} :
            Returned("reserve_dead_register", reg_allowed, w, ToolWrites(w, "tool_write"))

ReserveSimd ==
    /\ ClientMay
    /\ \E reg_allowed \in client.simd :
         \E w \in {drreg_reserve_register_ex(World(pt, ilist), DRREG_SIMD_XMM_SPILL_CLASS,
                                               At(cur), reg_allowed)} :
            Returned("reserve_simd", reg_allowed, w, ToolWrites(w, "tool_write_simd"))

UnreserveRegister ==
    /\ ClientMay
    /\ \E reg \in client.unreserve :
         /\ client.misuse \/ ~InUseIn(pt, reg) \/ Outstanding(hist, reg)
         /\ \E w \in {drreg_unreserve_register(World(pt, ilist), At(cur), reg)} :
               Returned("unreserve_register", {reg}, w, w.ilist)

ReserveAflags ==
    /\ ClientMay
    /\ \E w \in {drreg_reserve_aflags(World(pt, ilist), At(cur))} :
          Returned("reserve_aflags", {}, w, ToolWrites(w, "tool_write_aflags"))

UnreserveAflags ==
    /\ ClientMay
    /\ \E w \in {drreg_unreserve_aflags(World(pt, ilist), At(cur))} :
          Returned("unreserve_aflags", {}, w, w.ilist)

\* drreg's late insertion callback; drmgr then moves on to the next instruction
InsertLate ==
    /\ pc = "client" /\ err = "none"
    /\ \E w \in {drreg_event_bb_insert_late(World(pt, ilist), cur)} :
       /\ pt' = w.pt
       /\ ilist' = w.ilist
       /\ err' = w.err
       /\ IF cur = Len(block)
          THEN pc' = "done" /\ phase' = "none" /\ cur' = cur
          ELSE pc' = "early" /\ phase' = phase /\ cur' = cur + 1
    /\ UNCHANGED <<ops, block, client, hist, drreg_init_count>>

Next ==
    \/ BBAnalysis
    \/ InsertEarly
    \/ ReserveRegister
    \/ ReserveDeadRegister
    \/ ReserveSimd
    \/ UnreserveRegister
    \/ ReserveAflags
    \/ UnreserveAflags
    \/ InsertLate

Spec == Init /\ [][Next]_vars

\* Longer call sequences of a client that asks for xax or for any register,
\* on a few blocks
DeepBlocks ==
    {<<I_mov_mem_xax>>, <<I_cmp>>,
     <<I_mov_mem_xax, I_mov_xax_imm>>, <<I_mov_xax_imm, I_mov_mem_xax>>,
     <<I_cmp, I_mov_mem_xax>>, <<I_add_xax_1, I_jb>>}

DeepClient ==
    ClientProfile(DeepOps, {NULL_VECTOR, {"xax"}}, {NULL_VECTOR}, {"xax"}, FALSE)

DeepOptions ==
    {drreg_options_t(ManySlots, FALSE, NumSimdSlots),
     drreg_options_t(FewSlots, FALSE, NumSimdSlots - 1)}

InitDeep == InitWith(DeepBlocks, DeepOptions, DeepClient)

SpecDeep == InitDeep /\ [][Next]_vars

ApiOptions == {drreg_options_t(ManySlots, FALSE, NumSimdSlots)}

\* The analysis callback alone, on every block of up to AnalysisLen instructions
InitAnalysis == InitWith(SeqsUpTo(Catalog, AnalysisLen), ApiOptions, DeepClient)

SpecAnalysis == InitAnalysis /\ [][BBAnalysis]_vars

\* The analysis callback on blocks of instructions that read and write the
\* three widths of the SIMD registers
I_movdqa_mem_xmm0 == AppInstr("movdqa [m],xmm0", {}, {}, {}, {}, {}, TRUE, {}, {}, FALSE, FALSE, {"xmm0"}, {})
I_vmovdqa_mem_ymm0 == AppInstr("vmovdqa [m],ymm0", {}, {}, {}, {}, {}, TRUE, {}, {}, FALSE, FALSE, {"ymm0"}, {})
I_vmovdqa_ymm0_mem == AppInstr("vmovdqa ymm0,[m]", {}, {}, {}, {}, {}, TRUE, {}, {}, FALSE, FALSE, {}, {"ymm0"})
I_vmovdqa64_zmm0_mem == AppInstr("vmovdqa64 zmm0,[m]", {}, {}, {}, {}, {}, TRUE, {}, {}, FALSE, FALSE, {}, {"zmm0"})

SimdCatalog ==
    {I_movdqa_mem_xmm0, I_vmovdqa_mem_ymm0, I_movdqa_xmm0_mem, I_vmovdqa_ymm0_mem,
     I_vmovdqa64_zmm0_mem, I_mov_mem_xax, I_jb}

InitSimd == InitWith(SeqsUpTo(SimdCatalog, SimdLen), ApiOptions, DeepClient)

SpecSimd == InitSimd /\ [][BBAnalysis]_vars

----------------------------------------------------------------------------
(* Initialisation by several clients: drreg_init, drreg_exit *)

\* The optional fields of drreg_options_t, those whose presence drreg_init
\* derives from struct_size
OptionalFields == {"error_callback", "do_not_sum_slots", "num_spill_simd_slots"}

\* A client's drreg_options_t.  struct_size is kept as the set of optional
\* fields that lie within it (struct_size > offsetof(field)), together with
\* "required" unless struct_size < offsetof(drreg_options_t, error_callback)
OptionsIn(struct_size, num_spill_slots, do_not_sum_slots, num_spill_simd_slots) ==
    [struct_size |-> struct_size, num_spill_slots |-> num_spill_slots,
     conservative |-> FALSE, error_callback |-> DR_REG_NULL,
     do_not_sum_slots |-> do_not_sum_slots, num_spill_simd_slots |-> num_spill_simd_slots]

Covers(ops_in, field) == field \in ops_in.struct_size

\* static drreg_options_t ops, zero-initialised and zeroed again by drreg_exit
ops_zero ==
    [num_spill_slots |-> 0, conservative |-> FALSE, num_spill_simd_slots |-> 0,
     do_not_sum_slots |-> FALSE, error_callback |-> DR_REG_NULL]

\* Wrong on purpose: the larger count is never taken, the counts are always summed
AlwaysSum(do_not_sum_slots, cur_slots, new_slots) == cur_slots + new_slots

get_updated_num_slots(do_not_sum_slots, cur_slots, new_slots) ==
    IF do_not_sum_slots
    THEN (IF new_slots > cur_slots THEN new_slots ELSE cur_slots)
    ELSE cur_slots + new_slots

\* The calls drreg_init makes to the host when the count becomes 1, and
\* the calls drreg_exit makes when it becomes 0, in program order
HostSetup ==
    <<"drmgr_init", "drmgr_register_thread_init_event", "drmgr_register_thread_exit_event",
      "drmgr_register_tls_field", "drmgr_register_bb_instrumentation_event",
      "drmgr_register_restore_state_ex_event_ex", "tls_data_init">>
HostTeardown ==
    <<"tls_data_free", "drmgr_unregister_thread_init_event",
      "drmgr_unregister_thread_exit_event", "drmgr_unregister_tls_field",
      "drmgr_unregister_bb_insertion_event", "drmgr_unregister_bb_instrumentation_event",
      "drmgr_unregister_restore_state_ex_event", "drmgr_exit", "dr_raw_tls_cfree">>

\* drreg_init, the host's registrations and TLS allocation succeeding:
\* [ops, count, res, host], host being the calls made to the host
drreg_init(o, count, ops_in) ==
    LET prior_slots == o.num_spill_slots
        setup == IF count + 1 = 1 THEN HostSetup ELSE <<>>
        o1 == IF count + 1 = 1 THEN [o EXCEPT !.num_spill_slots = 1] ELSE o
        flag == IF Covers(ops_in, "do_not_sum_slots")
                THEN ops_in.do_not_sum_slots ELSE o1.do_not_sum_slots
        o2 == [o1 EXCEPT
                 !.num_spill_slots =
                     get_updated_num_slots(flag, o1.num_spill_slots, ops_in.num_spill_slots),
                 !.num_spill_simd_slots =
                     IF Covers(ops_in, "num_spill_simd_slots")
                     THEN get_updated_num_slots(flag, o1.num_spill_simd_slots,
                                                ops_in.num_spill_simd_slots)
                     ELSE @,
                 !.do_not_sum_slots =
                     IF Covers(ops_in, "do_not_sum_slots")
                     THEN ops_in.do_not_sum_slots ELSE FALSE,
                 !.conservative = @ \/ ops_in.conservative,
                 !.error_callback =
                     IF Covers(ops_in, "error_callback") /\ @ = DR_REG_NULL
                     THEN ops_in.error_callback ELSE @]
    IN IF ~Covers(ops_in, "required")
       THEN [ops |-> o1, count |-> count + 1, res |-> DRREG_ERROR_INVALID_PARAMETER,
             host |-> setup]
       ELSE [ops |-> o2, count |-> count + 1, res |-> DRREG_SUCCESS,
             host |-> setup \o (IF prior_slots > 0 THEN <<"dr_raw_tls_cfree">> ELSE <<>>)
                            \o <<"dr_raw_tls_calloc">>]

\* Wrong on purpose: every exit tears down, whatever the count
ExitAlwaysTearsDown(o, count) ==
    [ops |-> ops_zero, count |-> count - 1, res |-> DRREG_SUCCESS, host |-> HostTeardown]

\* drreg_exit: the last exit unregisters, frees the raw TLS and zeroes ops
drreg_exit(o, count) ==
    IF count - 1 # 0
    THEN [ops |-> o, count |-> count - 1, res |-> DRREG_SUCCESS, host |-> <<>>]
    ELSE [ops |-> ops_zero, count |-> count - 1, res |-> DRREG_SUCCESS, host |-> HostTeardown]

\* One drreg_init or drreg_exit call: what was passed, and ops before and after
InitCall(op, arg, r) ==
    [op |-> op, arg |-> arg, res |-> r.res, pre |-> ops, post |-> r.ops,
     first |-> drreg_init_count = 0, count |-> r.count, host |-> r.host]

Done(op, arg, r) ==
    /\ ops' = r.ops
    /\ drreg_init_count' = r.count
    /\ hist' = Append(hist, InitCall(op, arg, r))
    /\ UNCHANGED <<pt, ilist, block, phase, pc, cur, err, client>>

\* The options records clients pass
OptionsInputs ==
    {OptionsIn(sz, n, d, m) :
        sz \in {{}, {"required"}, {"required", "error_callback"},
                {"required", "error_callback", "do_not_sum_slots"},
                {"required"} \cup OptionalFields},
        n \in 0..MaxRequest, d \in BOOLEAN, m \in {0, MaxRequest}}

DrregInit ==
    /\ pc = "init" /\ Len(hist) < MaxInits
    /\ \E ops_in \in OptionsInputs :
         \* a field outside struct_size is not the client's to set
         /\ (ops_in.do_not_sum_slots => Covers(ops_in, "do_not_sum_slots"))
         /\ (ops_in.num_spill_simd_slots # 0 => Covers(ops_in, "num_spill_simd_slots"))
         /\ Done("drreg_init", ops_in, drreg_init(ops, drreg_init_count, ops_in))

DrregExit ==
    /\ pc = "init" /\ Len(hist) < MaxInits
    /\ drreg_init_count > 0
    /\ Done("drreg_exit", {}, drreg_exit(ops, drreg_init_count))

\* Before any client has initialised drreg
InitLoad ==
    /\ ops = ops_zero
    /\ drreg_init_count = 0
    /\ client = DeepClient
    /\ pt = tls_data_init
    /\ block = <<>>
    /\ ilist = <<>>
    /\ phase = "none"
    /\ pc = "init"
    /\ cur = 0
    /\ err = "none"
    /\ hist = <<>>

NextInit == DrregInit \/ DrregExit

SpecInit == InitLoad /\ [][NextInit]_vars

\* The client asks for the application value of a register it names, into
\* the register itself or into another one of its class
GetAppValue ==
    /\ ClientMay
    /\ \E app_reg \in client.unreserve :
       \E dst_reg \in {r \in client.unreserve : reg_is_gpr(r) = reg_is_gpr(app_reg)} :
       \E w \in {drreg_get_app_value(World(pt, ilist), At(cur), app_reg, dst_reg)} :
          Returned("get_app_value", {app_reg}, w, w.ilist)

\* Outside drmgr's insertion phase the client passes any instruction of the
\* list, or NULL (the end of the list), as where
ChooseWhere ==
    /\ pc = "outside" /\ err = "none"
    /\ cur' \in (1..(Len(block) + 1)) \ {cur}
    /\ UNCHANGED <<pt, ops, ilist, block, phase, pc, err, client, hist, drreg_init_count>>

\* A client that uses the API on an instruction list outside the insertion
\* phase (app2app, instru2instru, a list of its own)
InitOutside(B, O, C) ==
    /\ ops \in O
    /\ client = C
    /\ pt = tls_data_init
    /\ block \in B
    /\ ilist = [i \in 1..Len(block) |-> AppI(i)]
    /\ phase = "none"
    /\ pc = "outside"
    /\ cur = 1
    /\ err = "none"
    /\ hist = <<>>
    /\ drreg_init_count = 1

ApiBlocks == {<<I_mov_mem_xax>>, <<I_mov_xax_imm>>, <<I_cmp, I_jb>>}

ApiClient ==
    ClientProfile(ApiOps, {NULL_VECTOR, {"xax"}}, {NULL_VECTOR}, {"xax", "xcx", "xmm0"}, FALSE)

InitApi ==
    \/ InitWith(ApiBlocks, ApiOptions, ApiClient)
    \/ InitOutside(ApiBlocks, ApiOptions, ApiClient)

NextApi == Next \/ GetAppValue \/ ChooseWhere

SpecApi == InitApi /\ [][NextApi]_vars


\* A client that reserves and unreserves only the arithmetic flags, on
\* blocks of instructions that read and write flags and the accumulator
FlagCore == {I_cmp, I_stc, I_seto_mem, I_jb, I_add_xax_1, I_mov_mem_xax}

FlagClient == ClientProfile(FlagOps, {}, {}, {}, FALSE)

InitFlags == InitWith(SeqsUpTo(FlagCore, FlagLen), OptionChoices, FlagClient)

NextFlags == BBAnalysis \/ InsertEarly \/ ReserveAflags \/ UnreserveAflags \/ InsertLate

SpecFlags == InitFlags /\ [][NextFlags]_vars

\* The phase test can never be true (no phase is both analysis and
\* insertion), so the flags are always or-ed in
drreg_set_bb_properties(p, flags) ==
    IF phase # "app2app" /\ phase = "analysis" /\ phase = "insertion"
    THEN [pt |-> p, res |-> DRREG_ERROR_FEATURE_NOT_AVAILABLE]
    ELSE [pt |-> [p EXCEPT !.bb_props = @ \cup flags], res |-> DRREG_SUCCESS]

\* The client gives a hint about the block's control flow, before the
\* analysis or from its insertion callback
SetBBProperties ==
    /\ pc \in {"idle", "client"} /\ err = "none"
    /\ \E flags \in {{DRREG_IGNORE_CONTROL_FLOW}, {DRREG_CONTAINS_SPANNING_CONTROL_FLOW}} :
          /\ ~(flags \subseteq pt.bb_props)
          /\ drreg_set_bb_properties(pt, flags).res = DRREG_SUCCESS
          /\ pt' = drreg_set_bb_properties(pt, flags).pt
    /\ UNCHANGED <<ops, ilist, block, phase, pc, cur, err, client, hist, drreg_init_count>>

\* Blocks with and without a branch to one of their own instructions, a
\* client that reserves and unreserves GPRs, SIMD registers and the flags
FlowCore == {I_jb_intra, I_mov_mem_xax, I_cmp, I_paddd_xmm0_xmm1}

FlowClient ==
    ClientProfile(FlowOps, {NULL_VECTOR, {"xax"}}, {NULL_VECTOR},
                  {"xax", "xcx", "xmm0", "xmm1"}, FALSE)

InitFlow == InitWith(SeqsUpTo(FlowCore, FlowLen), OptionChoices, FlowClient)

NextFlow ==
    \/ BBAnalysis
    \/ SetBBProperties
    \/ InsertEarly
    \/ ReserveRegister
    \/ ReserveSimd
    \/ UnreserveRegister
    \/ ReserveAflags
    \/ UnreserveAflags
    \/ InsertLate

SpecFlow == InitFlow /\ [][NextFlow]_vars

----------------------------------------------------------------------------
(* Execution of the instrumented block *)

\* Values are symbolic.  A GPR holds [v, ah, al]: v names the value, ah and
\* al are Own unless lahf / seto put flags there.  Version n of an
\* application value is the one written by the n-th instruction of the block
\* (0: the value on entry).
Own == <<"own", "", 0>>
Junk == <<"junk", "", 0>>
Word(v) == [v |-> v, ah |-> Own, al |-> Own]
AppValue(x, n) == <<"app", x, n>>
ToolValue(id) == <<"tool", "", id>>
BlockPointer == <<"simd_block", "", 0>>
Flags == EFLAGS_READ_ARITH

\* Whether instruction j of blk writes x
WritesAt(blk, x, j) ==
    \/ x \in blk[j].wr /\ (x \notin blk[j].wrc \/ blk[j].taken)
    \/ x \in blk[j].fwr
    \/ x \in SIMDs /\ WritesSimd(blk[j], x)

\* The version of x the application alone has after n instructions
LastWrite(blk, x, n) ==
    LET W == {j \in 1..n : WritesAt(blk, x, j)} IN
    IF W = {} THEN 0 ELSE CHOOSE j \in W : \A i \in W : i <= j

\* The machine state the application alone has after n instructions
AppAlone(blk, n) ==
    [reg |-> [r \in GPRs |-> Word(AppValue(r, LastWrite(blk, r, n)))],
     flag |-> [f \in Flags |-> AppValue(f, LastWrite(blk, f, n))],
     simd |-> [z \in SIMDs |-> AppValue(z, LastWrite(blk, z, n))]]

\* The machine when the block is entered: nothing is in the slots yet
Machine0 ==
    [reg |-> AppAlone(<<>>, 0).reg, flag |-> AppAlone(<<>>, 0).flag, simd |-> AppAlone(<<>>, 0).simd,
     tls |-> [s \in 0..(MAX_SPILLS - 1) |-> Word(Junk)],
     dr |-> [s \in 0..SPILL_SLOT_MAX |-> Word(Junk)],
     simd_block |-> [s \in 0..(MAX_SIMD_SPILLS - 1) |-> Junk],
     n |-> 0, fault |-> FALSE]

\* What application instruction k does to the machine: a value it computes is
\* the application's if everything it read was, and DR's slots do not
\* survive an application instruction
GprsRead(inst) ==
    inst.rd \cup (inst.wr \ (inst.wrx \cup inst.wrx32)) \cup (inst.wr \cap inst.wrc)

ExecApp(m, k) ==
    LET inst == block[k]
        a == AppAlone(block, k - 1)
        good == /\ \A r \in GprsRead(inst) : m.reg[r] = a.reg[r]
                /\ \A f \in inst.frd : m.flag[f] = a.flag[f]
                /\ \A z \in SIMDs : ReadsSimd(inst, z) => m.simd[z] = a.simd[z]
        new(x) == IF good THEN AppValue(x, k) ELSE Junk
    IN [m EXCEPT
          !.reg = [r \in GPRs |-> IF WritesAt(block, r, k) THEN Word(new(r)) ELSE m.reg[r]],
          !.flag = [f \in Flags |-> IF f \in inst.fwr THEN new(f) ELSE m.flag[f]],
          !.simd = [z \in SIMDs |-> IF WritesSimd(inst, z) THEN new(z) ELSE m.simd[z]],
          !.dr = [s \in 0..SPILL_SLOT_MAX |-> Word(Junk)],
          !.n = k]

FlagIn(byte) == IF byte = Own THEN Junk ELSE byte

\* What one instruction of the list does to the machine
Exec(m, x) ==
    CASE x.op = "app" -> ExecApp(m, x.k)
      [] x.op = "spill" -> [m EXCEPT !.tls[x.s] = m.reg[x.r]]
      [] x.op = "restore" -> [m EXCEPT !.reg[x.r] = m.tls[x.s]]
      [] x.op = "dr_save_reg" -> [m EXCEPT !.dr[x.s] = m.reg[x.r]]
      [] x.op = "dr_restore_reg" -> [m EXCEPT !.reg[x.r] = m.dr[x.s]]
      [] x.op = "xchg" -> [m EXCEPT !.reg[x.r] = m.reg[x.r2], !.reg[x.r2] = m.reg[x.r]]
      [] x.op = "lahf" -> [m EXCEPT !.reg[DR_REG_XAX].ah = m.flag["CF"]]
      [] x.op = "seto" -> [m EXCEPT !.reg[DR_REG_XAX].al = m.flag["OF"]]
      [] x.op = "cmp" -> [m EXCEPT !.flag = [f \in Flags |->
                              IF f = "OF" THEN FlagIn(m.reg[DR_REG_XAX].al) ELSE Junk]]
      [] x.op = "sahf" -> [m EXCEPT !.flag["CF"] = FlagIn(m.reg[DR_REG_XAX].ah)]
      [] x.op = "tool_write" -> [m EXCEPT !.reg[x.r] = Word(ToolValue(x.k))]
      [] x.op = "tool_write_aflags" -> [m EXCEPT !.flag = [f \in Flags |-> ToolValue(x.k)]]
      [] x.op = "tool_write_simd" -> [m EXCEPT !.simd[SIMD_IDX(x.r)] = ToolValue(x.k)]
      [] x.op = "load_block" -> [m EXCEPT !.reg[x.r] = Word(BlockPointer)]
      [] x.op = "mov" -> [m EXCEPT !.reg[x.r] = m.reg[x.r2]]
      [] x.op = "movdqa" -> [m EXCEPT !.simd[SIMD_IDX(x.r)] = m.simd[SIMD_IDX(x.r2)]]
      [] x.op = "movdqa_store" ->
            IF m.reg[x.r2] = Word(BlockPointer)
            THEN [m EXCEPT !.simd_block[x.s] = m.simd[SIMD_IDX(x.r)]]
            ELSE [m EXCEPT !.fault = TRUE]
      [] x.op = "movdqa_load" ->
            IF m.reg[x.r2] = Word(BlockPointer)
            THEN [m EXCEPT !.simd[SIMD_IDX(x.r)] = m.simd_block[x.s]]
            ELSE [m EXCEPT !.fault = TRUE]

\* The machine states before each instruction of il and after the last one
RECURSIVE RunFrom(_, _, _)
RunFrom(il, i, acc) ==
    IF i > Len(il) THEN acc
    ELSE RunFrom(il, i + 1, Append(acc, Exec(acc[Len(acc)], il[i])))

Run(il) == RunFrom(il, 1, <<Machine0>>)

\* The machine just before application instruction k executes
Before(il, k) == Run(il)[PosOfApp(il, k)]

\* The application instructions whose late callback has run: what is emitted
\* before and around them is final
Finalized == IF pc = "done" THEN Len(block) ELSE IF cur = 0 THEN 0 ELSE cur - 1


----------------------------------------------------------------------------
(* Fault-time state reconstruction: drreg_event_restore_state *)

\* dr_max_opnd_accessible_spill_slot(): every DR slot of the model is a TLS slot
dr_max_opnd_accessible_spill_slot == SPILL_SLOT_MAX

NotOurs == [ours |-> FALSE, spill |-> FALSE, reg |-> DR_REG_NULL, slot |-> 0, indirect |-> FALSE]
Ours(spill, reg, slot, indirect) ==
    [ours |-> TRUE, spill |-> spill, reg |-> reg, slot |-> slot, indirect |-> indirect]

\* instr is decoded at a pc of the fragment, next_instr right after it
is_our_spill_or_restore(instr, next_instr) ==
    CASE instr.op \in {"spill", "restore"} ->
            Ours(instr.op = "spill", instr.r, instr.s, FALSE)
      [] instr.op = "load_block" ->
            IF next_instr.op = "movdqa_load" THEN Ours(FALSE, next_instr.r, next_instr.s, TRUE)
            ELSE IF next_instr.op = "movdqa_store" THEN Ours(TRUE, next_instr.r, next_instr.s, TRUE)
            ELSE NotOurs
      [] instr.op \in {"dr_save_reg", "dr_restore_reg"} ->
            IF instr.s > dr_max_opnd_accessible_spill_slot THEN NotOurs
            ELSE IF instr.s > dr_max_opnd_accessible_spill_slot - 1 THEN NotOurs
            ELSE Ours(instr.op = "dr_save_reg", instr.r, instr.s + ops.num_spill_slots, FALSE)
      [] OTHER -> NotOurs

\* The locals of drreg_event_restore_state before its walk.  is_spill is not
\* initialized; it is read only after prev_xax_spill was set, which happens
\* where is_spill has just been written.
WalkStart ==
    [spilled_to |-> [r \in GPRs |-> MAX_SPILLS],
     spilled_to_aflags |-> MAX_SPILLS,
     spilled_simd_to |-> [z \in SIMDs |-> MAX_SIMD_SPILLS],
     simd_slot_use |-> [s \in 0..(MAX_SIMD_SPILLS - 1) |-> DR_REG_NULL],
     is_spill |-> FALSE, prev_xax_spill |-> FALSE, aflags_in_xax |-> FALSE]

\* The body of the walk for a recognized spill
WalkSpill(rs, o) ==
    IF o.slot = AFLAGS_SLOT THEN [rs EXCEPT !.spilled_to_aflags = o.slot]
    ELSE IF o.indirect
    THEN IF reg_is_vector_simd(o.reg)
         THEN IF /\ rs.spilled_simd_to[SIMD_IDX(o.reg)] < ops.num_spill_simd_slots
                 /\ rs.spilled_simd_to[SIMD_IDX(o.reg)] # o.slot
              THEN rs
              ELSE [rs EXCEPT !.spilled_simd_to[SIMD_IDX(o.reg)] = o.slot,
                              !.simd_slot_use[o.slot] = o.reg]
         ELSE rs
    ELSE IF rs.spilled_to[o.reg] < MAX_SPILLS /\ rs.spilled_to[o.reg] # o.slot THEN rs
    ELSE [rs EXCEPT !.spilled_to[o.reg] = o.slot]

\* The body of the walk for a recognized restore
WalkRestore(rs, o) ==
    IF o.slot = AFLAGS_SLOT /\ rs.spilled_to_aflags = o.slot
    THEN [rs EXCEPT !.spilled_to_aflags = MAX_SPILLS]
    ELSE IF o.indirect
    THEN IF rs.spilled_simd_to[SIMD_IDX(o.reg)] = o.slot
         THEN [rs EXCEPT !.spilled_simd_to[SIMD_IDX(o.reg)] = MAX_SIMD_SPILLS,
                         !.simd_slot_use[o.slot] = DR_REG_NULL]
         ELSE rs
    ELSE IF rs.spilled_to[o.reg] = o.slot THEN [rs EXCEPT !.spilled_to[o.reg] = MAX_SPILLS]
    ELSE rs

\* One iteration of the walk
WalkStep(rs, inst, next_inst) ==
    LET o == is_our_spill_or_restore(inst, next_inst) IN
    IF o.ours
    THEN LET rs1 == IF o.spill THEN WalkSpill(rs, o) ELSE WalkRestore(rs, o)
             rs2 == [rs1 EXCEPT !.is_spill = o.spill]
         IN IF o.reg = DR_REG_XAX
            THEN [rs2 EXCEPT !.prev_xax_spill = TRUE, !.aflags_in_xax = FALSE]
            ELSE rs2
    ELSE IF rs.prev_xax_spill /\ inst.op = "lahf" /\ rs.is_spill
    THEN [rs EXCEPT !.aflags_in_xax = TRUE]
    ELSE IF rs.aflags_in_xax /\ inst.op = "sahf"
    THEN [rs EXCEPT !.aflags_in_xax = FALSE]
    ELSE rs

\* The walk over the instructions of il before position i ("pc < raw pc")
RECURSIVE Walk(_, _, _, _)
Walk(il, i, j, rs) ==
    IF j >= i THEN rs
    ELSE Walk(il, i, j + 1,
              WalkStep(rs, il[j], IF j + 1 <= Len(il) THEN il[j + 1] ELSE Instr("none", DR_REG_NULL, DR_REG_NULL, 0, 0)))

get_directly_spilled_value(m, slot) ==
    IF slot < ops.num_spill_slots THEN m.tls[slot] ELSE m.dr[slot - ops.num_spill_slots]

\* The machine context drreg_event_restore_state leaves for a fault at the
\* instruction at position i of il, the raw context being m
drreg_event_restore_state(il, i, m) ==
    LET rs == Walk(il, i, 1, WalkStart)
        val == IF rs.aflags_in_xax THEN m.reg[DR_REG_XAX]
               ELSE get_directly_spilled_value(m, rs.spilled_to_aflags)
    IN [reg |-> [r \in GPRs |-> IF rs.spilled_to[r] < MAX_SPILLS
                                THEN get_directly_spilled_value(m, rs.spilled_to[r])
                                ELSE m.reg[r]],
        flag |-> IF rs.spilled_to_aflags < MAX_SPILLS \/ rs.aflags_in_xax
                 THEN [f \in Flags |-> IF f = "OF" THEN FlagIn(val.al) ELSE FlagIn(val.ah)]
                 ELSE m.flag,
        simd |-> [z \in SIMDs |->
                    LET slot == rs.spilled_simd_to[z] IN
                    IF slot < ops.num_spill_simd_slots /\ reg_is_strictly_xmm(rs.simd_slot_use[slot])
                    THEN m.simd_block[slot]
                    ELSE m.simd[z]]]

\* The number of application instructions before position i of il
RECURSIVE AppsBefore(_, _)
AppsBefore(il, i) ==
    IF i <= 1 THEN 0 ELSE AppsBefore(il, i - 1) + (IF il[i - 1].op = "app" THEN 1 ELSE 0)

----------------------------------------------------------------------------
(* Properties *)

\* C2: if every GPR, SIMD and aflags reservation made in the block has been
\* unreserved before the late callback of the last instruction runs, then
\* after that callback every register record and the aflags record is
\* unreserved and native and every slot_use and simd_slot_use entry is empty.
C2_CleanAtBlockEnd ==
    (pc = "done" /\ err = "none" /\ \A x \in Resources : ~Outstanding(hist, x))
        => Pristine(pt)

\* A block has ended clean after a reservation and its unreservation
C2_Witness ==
    /\ pc = "done" /\ err = "none" /\ Pristine(pt)
    /\ \E i \in 1..Len(hist) : IsReserve(hist[i]) /\ Succeeded(hist[i])
    /\ \A x \in Resources : ~Outstanding(hist, x)

\* C3: for every GPR slot s and GPR r, slot_use[s] == r holds exactly when
\* r.slot == s, r is not native and r.xchg is null; likewise for
\* simd_slot_use and the SIMD registers.
C3_SlotUseAgrees ==
    err = "none" =>
        /\ \A s \in DOMAIN pt.slot_use : \A r \in GPRs :
              pt.slot_use[s] = r <=>
                  (pt.reg[r].slot = s /\ ~pt.reg[r].native /\ pt.reg[r].xchg = DR_REG_NULL)
        /\ \A s \in DOMAIN pt.simd_slot_use : \A z \in SIMDs :
              pt.simd_slot_use[s] \in SimdAliases(z) <=>
                  (pt.simd_reg[z].slot = s /\ ~pt.simd_reg[z].native)

\* C6: no successful reservation returns a register (or the aflags) whose
\* record was in_use when the call was made, or that an earlier reservation
\* still holds.
C6_Exclusive ==
    err = "none" =>
        \A i \in 1..Len(hist) :
            (IsReserve(hist[i]) /\ Succeeded(hist[i])) =>
                /\ ~InUseIn(hist[i].pre, Resource(hist[i]))
                /\ ~Outstanding(SubSeq(hist, 1, i - 1), Resource(hist[i]))

\* Call i asks for the aflags, or for one GPR and no other, while an earlier
\* reservation of the same still stands
SecondReserve(i) ==
    LET c == hist[i]
        x == IF c.op = "reserve_aflags" THEN "aflags" ELSE CHOOSE r \in c.arg : TRUE IN
    /\ IsReserve(c)
    /\ c.op = "reserve_aflags" \/ Cardinality(c.arg) = 1
    /\ Outstanding(SubSeq(hist, 1, i - 1), x)

\* C7: reserving the same register (or the aflags) again while the first
\* reservation stands returns DRREG_ERROR_IN_USE.
C7_SecondReserveInUse ==
    err = "none" =>
        \A i \in 1..Len(hist) : SecondReserve(i) => hist[i].res = DRREG_ERROR_IN_USE

\* The aflags-in-xax rescue of drreg_reserve_gpr_internal was taken by call c
Rescued(c) ==
    /\ c.out = DR_REG_XAX
    /\ ~c.pre.aflags.in_use /\ c.pre.reg[DR_REG_XAX].in_use /\ c.pre.aflags.xchg = DR_REG_XAX

\* C8: a register that drreg_reserve_dead_register returns is dead at the
\* reservation point by the liveness vector, unless the rescue was applied.
C8_DeadIsDead ==
    err = "none" =>
        \A i \in 1..Len(hist) :
            LET c == hist[i] IN
            (c.op = "reserve_dead_register" /\ Succeeded(c) /\ ~Rescued(c))
                => LiveNow(c.pre, c.out) = REG_DEAD

FailedForLack(c) ==
    IsReserve(c) /\ c.res \in {DRREG_ERROR_OUT_OF_SLOTS, DRREG_ERROR_REG_CONFLICT}

C3_SlotUseAgreesButAflags ==
    err = "none" =>
        /\ \A s \in DOMAIN pt.slot_use \ {AFLAGS_SLOT} : \A r \in GPRs :
              pt.slot_use[s] = r <=>
                  (pt.reg[r].slot = s /\ ~pt.reg[r].native /\ pt.reg[r].xchg = DR_REG_NULL)
        /\ \A s \in DOMAIN pt.simd_slot_use : \A z \in SIMDs :
              pt.simd_slot_use[s] \in SimdAliases(z) <=>
                  (pt.simd_reg[z].slot = s /\ ~pt.simd_reg[z].native)

\* A state where the agreement holds while slot_use[AFLAGS_SLOT] names a
\* register whose own slot is another one, and another slot is taken
C3_Witness ==
    /\ err = "none"
    /\ \E r \in GPRs :
          /\ pt.slot_use[AFLAGS_SLOT] = r /\ pt.reg[r].slot # AFLAGS_SLOT
          /\ ~pt.reg[r].native /\ pt.reg[r].xchg = DR_REG_NULL
    /\ \E s \in DOMAIN pt.slot_use \ {AFLAGS_SLOT} : pt.slot_use[s] # DR_REG_NULL
    /\ C3_SlotUseAgreesButAflags

\* C6, the rescue apart: no successful reservation returns a register (or
\* the aflags) that an earlier reservation still holds, and the record of
\* what it returns was not in_use when the call was made unless the call
\* took xax over from the flags drreg itself had parked there.
C6_ExclusiveButRescue ==
    err = "none" =>
        \A i \in 1..Len(hist) :
            (IsReserve(hist[i]) /\ Succeeded(hist[i])) =>
                /\ Rescued(hist[i]) \/ ~InUseIn(hist[i].pre, Resource(hist[i]))
                /\ ~Outstanding(SubSeq(hist, 1, i - 1), Resource(hist[i]))

\* A reservation took xax over by the rescue while another one stands
C6_Witness ==
    /\ err = "none"
    /\ \E i \in 1..Len(hist) :
          /\ IsReserve(hist[i]) /\ Succeeded(hist[i]) /\ Rescued(hist[i])
          /\ hist[i].op # "reserve_aflags"
          /\ ~Outstanding(SubSeq(hist, 1, i - 1), DR_REG_XAX)
    /\ \E i \in 1..Len(hist) :
          /\ IsReserve(hist[i]) /\ Succeeded(hist[i]) /\ ~Rescued(hist[i])
          /\ \E x \in Resources \ {Resource(hist[i])} :
                Outstanding(SubSeq(hist, 1, i - 1), x)

\* C7 by resource: reserving the aflags while they are reserved returns
\* DRREG_ERROR_IN_USE; reserving a GPR while it is reserved, with a vector
\* that allows only that register, returns DRREG_ERROR_REG_CONFLICT.
C7_SecondReserveRefused ==
    err = "none" =>
        \A i \in 1..Len(hist) :
            SecondReserve(i) =>
                hist[i].res = IF hist[i].op = "reserve_aflags" THEN DRREG_ERROR_IN_USE
                              ELSE DRREG_ERROR_REG_CONFLICT

\* Both refusals have happened
C7_Witness ==
    /\ err = "none"
    /\ \E i \in 1..Len(hist) :
          SecondReserve(i) /\ hist[i].op = "reserve_aflags"
              /\ hist[i].res = DRREG_ERROR_IN_USE
    /\ \E i \in 1..Len(hist) :
          SecondReserve(i) /\ hist[i].op = "reserve_register"
              /\ hist[i].res = DRREG_ERROR_REG_CONFLICT

\* Call c took a register that was unreserved and awaited its lazy restore
\* with its application value already in its slot
TookSpilledPending(c) ==
    /\ c.pre.pending_unreserved > 0
    /\ ~c.pre.reg[c.out].native /\ ~c.pre.reg[c.out].in_use /\ c.pre.reg[c.out].ever_spilled

\* C8 with the register that needs no spill: a register that
\* drreg_reserve_dead_register returns is dead at the reservation point by
\* the liveness vector, or was taken by the rescue, or is an unreserved
\* register whose application value is already in its slot.
C8_DeadOrNeedsNoSpill ==
    err = "none" =>
        \A i \in 1..Len(hist) :
            LET c == hist[i] IN
            (c.op = "reserve_dead_register" /\ Succeeded(c))
                => \/ LiveNow(c.pre, c.out) = REG_DEAD
                   \/ Rescued(c)
                   \/ TookSpilledPending(c)

\* drreg_reserve_dead_register has returned a live register, already spilled
C8_Witness ==
    /\ err = "none"
    /\ \E i \in 1..Len(hist) :
          LET c == hist[i] IN
          /\ c.op = "reserve_dead_register" /\ Succeeded(c) /\ ~Rescued(c)
          /\ LiveNow(c.pre, c.out) = REG_LIVE
          /\ TookSpilledPending(c)
          /\ c.emitted = <<>>

\* Calls i < j < k of hist reserve r, unreserve it and reserve it again, and
\* no other call reserves or unreserves r in between
ReserveUnreserveReserve(i, j, k, r) ==
    /\ i < j /\ j < k
    /\ r \in GPRs
    /\ IsReserve(hist[i]) /\ Succeeded(hist[i]) /\ Resource(hist[i]) = r
    /\ hist[j].op = "unreserve_register" /\ Succeeded(hist[j]) /\ Resource(hist[j]) = r
    /\ IsReserve(hist[k]) /\ Succeeded(hist[k]) /\ Resource(hist[k]) = r
    /\ \A m \in (i + 1)..(k - 1) :
          m # j => ~(Succeeded(hist[m]) /\ Resource(hist[m]) = r)

\* No application instruction from the one call i was made at up to the one
\* call k was made at writes r
NoAppWriteBetween(i, k, r) ==
    \A n \in hist[i].at..(hist[k].at - 1) : r \notin block[n].wr

IsSpillStore(x) == x.op \in {"spill", "dr_save_reg"}

SameSlotNoStore(i, k, r) ==
    /\ hist[k].post.reg[r].slot = hist[i].post.reg[r].slot
    /\ \A n \in 1..Len(hist[k].emitted) : ~IsSpillStore(hist[k].emitted[n])

Triples == {t \in (1..DeepOps) \X (1..DeepOps) \X (1..DeepOps) : t[3] <= Len(hist)}

\* C9 as stated: reserve, unreserve, reserve of the same register with no
\* application write to it in between gives the second reservation the slot
\* of the first and emits no spill store.
C9_ReReserveReusesSlot ==
    err = "none" =>
        \A t \in Triples : \A r \in GPRs :
            (ReserveUnreserveReserve(t[1], t[2], t[3], r) /\ NoAppWriteBetween(t[1], t[3], r))
                => SameSlotNoStore(t[1], t[3], r)

\* C9, for a register the late callback has not restored meanwhile: reserve,
\* unreserve, reserve of the same register, the register still awaiting its
\* lazy restore (not native) when the second reservation is made, gives the
\* second reservation the slot of the first and emits no spill store.
C9_ReReservePendingReusesSlot ==
    err = "none" =>
        \A t \in Triples : \A r \in GPRs :
            (/\ ReserveUnreserveReserve(t[1], t[2], t[3], r)
             /\ ~hist[t[3]].pre.reg[r].native /\ ~hist[t[3]].pre.reg[r].in_use)
                => SameSlotNoStore(t[1], t[3], r)

\* A spilled register was reserved again while it awaited its lazy restore
C9_Witness ==
    /\ err = "none"
    /\ \E t \in Triples : \E r \in GPRs :
          /\ ReserveUnreserveReserve(t[1], t[2], t[3], r)
          /\ ~hist[t[3]].pre.reg[r].native /\ ~hist[t[3]].pre.reg[r].in_use
          /\ hist[t[1]].post.reg[r].ever_spilled
          /\ SameSlotNoStore(t[1], t[3], r)

\* C1: when the emitted block executes, every application instruction that
\* reads a GPR (or writes it only partially or conditionally) finds that
\* register holding its application value.
C1_AppReadsSeeAppValues ==
    (err = "none" /\ pc \in {"early", "done"}) =>
        \A k \in 1..Finalized : \A r \in GprsRead(block[k]) :
            Before(ilist, k).reg[r] = AppAlone(block, k - 1).reg[r]

\* The positions of the instructions the late callback of instruction k
\* emitted for register r in the given role
Noted(k, r, role) ==
    {i \in 1..Len(ilist) : ilist[i].note = role /\ ilist[i].k = k /\ ilist[i].r = r}

AllBefore(A, B) == \A a \in A : \A b \in B : a < b

\* The order of the claim for one register at one instruction
InBracketOrder(k, r, pre) ==
    LET TS == Noted(k, r, pre \o "tool_spill")
        AR == Noted(k, r, pre \o "app_restore")
        I == {PosOfApp(ilist, k)}
        RS == Noted(k, r, pre \o "app_respill")
        TR == Noted(k, r, pre \o "tool_restore")
    IN /\ AllBefore(TS, AR) /\ AllBefore(TS, I) /\ AllBefore(TS, RS) /\ AllBefore(TS, TR)
       /\ AllBefore(AR, I) /\ AllBefore(AR, RS) /\ AllBefore(AR, TR)
       /\ AllBefore(I, RS) /\ AllBefore(I, TR)
       /\ AllBefore(RS, TR)

\* C4: around every application instruction and for every register bracketed
\* there, the emitted instructions come in the order tool-value spill,
\* app-value restore, the instruction, app-value re-spill, tool-value restore.
C4_BracketOrder ==
    (err = "none" /\ pc \in {"early", "done"}) =>
        \A k \in 1..Finalized :
            /\ \A r \in GPRs : InBracketOrder(k, r, "")
            /\ \A z \in SIMDs : InBracketOrder(k, SimdNames[z]["OPSZ_16"], "simd_")

\* C5: for a fault at any instruction boundary of the emitted block, the
\* register and flag values the reconstructor writes into the machine
\* context are those the application alone has at that application pc.
C5_ReconstructedIsAppAlone ==
    (pc = "done" /\ err = "none") =>
        LET run == Run(ilist) IN
        \A i \in 1..Len(ilist) :
            drreg_event_restore_state(ilist, i, run[i])
                = AppAlone(block, AppsBefore(ilist, i))

\* x is live once n application instructions have executed: the application
\* may read it before it writes it, or leaves the block with it
LiveAfter(x, n) ==
    \/ n = Len(block)
    \/ x \in GPRs /\ GprLiveAt(block, x, Len(block) - n - 1) = REG_LIVE
    \/ x \in Flags /\ x \in AflagsLiveAt(block, Len(block) - n - 1)
    \/ x \in SIMDs /\ SimdLiveAt(block, x, Len(block) - n - 1) > SIMD_ZMM_DEAD

\* C5 for what is live only: the reconstructed value of every register and
\* flag that is live at the application pc of the fault is the one the
\* application alone has there.
C5_ReconstructedLiveIsAppAlone ==
    (pc = "done" /\ err = "none") =>
        LET run == Run(ilist) IN
        \A i \in 1..Len(ilist) :
            LET n == AppsBefore(ilist, i)
                mc == drreg_event_restore_state(ilist, i, run[i])
                app == AppAlone(block, n)
            IN /\ \A r \in GPRs : LiveAfter(r, n) => mc.reg[r] = app.reg[r]
               /\ \A f \in Flags : LiveAfter(f, n) => mc.flag[f] = app.flag[f]
               /\ \A z \in SIMDs : LiveAfter(z, n) => mc.simd[z] = app.simd[z]

RestoresReg(i, x) ==
    /\ i.r = x
    /\ IF x \in GPRs THEN i.op \in {"restore", "dr_restore_reg"} ELSE i.op = "movdqa_load"

\* C12: unreserving a reserved register inside the insertion phase clears in_use, increments the class's pending-unreserved counter, inserts nothing and leaves the register non-native with its slot; outside the insertion phase it inserts a restore of the register if ever_spilled is set and otherwise inserts nothing and frees the slot, and sets native
C12_UnreserveLazyInsideEagerOutside ==
    \A i \in 1..Len(hist) :
        LET c == hist[i]
            x == Resource(c)
            a == RecordIn(c.pre, x)
            b == RecordIn(c.post, x) IN
        c.op = "unreserve_register" /\ InUseIn(c.pre, x) =>
            /\ c.res = DRREG_SUCCESS
            /\ ~b.in_use
            /\ IF c.phase = "insertion"
               THEN /\ PendingIn(c.post, x) = PendingIn(c.pre, x) + 1
                    /\ c.emitted = <<>>
                    /\ ~b.native /\ b.slot = a.slot
                    /\ SlotUseIn(c.post, x) = SlotUseIn(c.pre, x)
               ELSE /\ b.native
                    /\ PendingIn(c.post, x) = PendingIn(c.pre, x)
                    /\ SlotUseIn(c.post, x)[a.slot] = DR_REG_NULL
                    /\ IF a.ever_spilled
                       THEN \E j \in 1..Len(c.emitted) : RestoresReg(c.emitted[j], x)
                       ELSE c.emitted = <<>>

\* Outside the insertion phase a spilled register has been unreserved and restored
C12_Witness ==
    /\ Len(hist) = 2
    /\ hist[2].phase # "insertion"
    /\ hist[2].op = "unreserve_register" /\ InUseIn(hist[2].pre, Resource(hist[2]))
    /\ RecordIn(hist[2].pre, Resource(hist[2])).ever_spilled /\ hist[2].emitted # <<>>
    /\ RecordIn(hist[2].post, Resource(hist[2])).native

\* Outside the insertion phase an unspilled register has been unreserved
C12_WitnessUnspilled ==
    /\ Len(hist) = 2
    /\ hist[2].phase # "insertion"
    /\ hist[2].op = "unreserve_register" /\ InUseIn(hist[2].pre, Resource(hist[2]))
    /\ ~RecordIn(hist[2].pre, Resource(hist[2])).ever_spilled /\ hist[2].emitted = <<>>

\* Inside the insertion phase a reserved register has been unreserved
C12_WitnessInside ==
    /\ Len(hist) = 2
    /\ hist[2].phase = "insertion"
    /\ hist[2].op = "unreserve_register" /\ InUseIn(hist[2].pre, Resource(hist[2]))
    /\ hist[2].post.pending_unreserved = 1

IsGprReserve(c) == c.op \in {"reserve_register", "reserve_dead_register"}

\* The registers the three rules of the reservation order name for a
\* request made in state p: rule 1 if it names any, else rule 2, else rule 3
RuleChoice(p, reg_allowed, dead_only) ==
    LET Free == {r \in GPRs : ~p.reg[r].in_use /\ Allowed(reg_allowed, r)}
        R1 == {r \in Free : /\ ~p.reg[r].native
                             /\ (dead_only => p.reg[r].ever_spilled \/ LiveNow(p, r) = REG_DEAD)}
        R2 == {r \in Free \ {DR_REG_XSP, StolenReg} : LiveNow(p, r) = REG_DEAD}
        R3 == {r \in Free \ {DR_REG_XSP, StolenReg} :
                 \A q \in Free \ {DR_REG_XSP, StolenReg} : p.reg[r].app_uses <= p.reg[q].app_uses}
    IN IF R1 # {} THEN R1
       ELSE IF R2 # {} THEN {FirstGpr(R2)}
       ELSE IF ~dead_only THEN R3 ELSE {}

\* The unreserved aflags are parked in xax, whose record is in_use for that reason only
AflagsParkedInXax(p) ==
    ~p.aflags.in_use /\ p.reg[DR_REG_XAX].in_use /\ p.aflags.xchg = DR_REG_XAX

\* C13 as stated: every successful GPR reservation returns a register named by the first applicable rule of: (1) allowed, non-native, not in use (and, for a dead-only request, ever spilled or Dead); (2) the first allowed not-in-use Dead register other than xsp and the stolen register; (3) for a request that is not dead-only, an allowed not-in-use register other than xsp and the stolen register with the smallest app_uses
C13_ThreeRulesOnly ==
    \A i \in 1..Len(hist) :
        IsGprReserve(hist[i]) /\ Succeeded(hist[i]) =>
            /\ hist[i].out \notin {DR_REG_XSP, StolenReg}
            /\ hist[i].out \in RuleChoice(hist[i].pre, hist[i].arg,
                                           hist[i].op = "reserve_dead_register")

\* C13: every successful GPR reservation returns a register other than xsp and the stolen register, named by the first applicable of the three rules, or, when no rule names a register, xax taken back from the unreserved aflags parked in it
C13_ThreeRulesThenRescue ==
    \A i \in 1..Len(hist) :
        LET c == hist[i]
            R == RuleChoice(c.pre, c.arg, c.op = "reserve_dead_register") IN
        IsGprReserve(c) /\ Succeeded(c) =>
            /\ c.out \notin {DR_REG_XSP, StolenReg}
            /\ \/ c.out \in R
               \/ /\ R = {} /\ c.out = DR_REG_XAX
                  /\ AflagsParkedInXax(c.pre) /\ Allowed(c.arg, DR_REG_XAX)

\* A pending register was reused by rule 1 though it is Live and another allowed free register has fewer uses
C13_Witness ==
    /\ Len(hist) = 3
    /\ IsGprReserve(hist[3]) /\ Succeeded(hist[3])
    /\ ~hist[3].pre.reg[hist[3].out].native
    /\ LiveNow(hist[3].pre, hist[3].out) = REG_LIVE
    /\ \E r \in GPRs \ {hist[3].out, DR_REG_XSP} :
          /\ ~hist[3].pre.reg[r].in_use /\ Allowed(hist[3].arg, r)
          /\ hist[3].pre.reg[r].app_uses < hist[3].pre.reg[hist[3].out].app_uses

\* A request fell to rule 3: the register returned is Live, native and not the only candidate
C13_WitnessLeastUsed ==
    /\ Len(hist) = 2
    /\ IsGprReserve(hist[2]) /\ Succeeded(hist[2])
    /\ hist[2].pre.reg[hist[2].out].native
    /\ LiveNow(hist[2].pre, hist[2].out) = REG_LIVE
    /\ hist[2].arg = NULL_VECTOR
    /\ \E r \in GPRs : hist[2].pre.reg[r].app_uses > hist[2].pre.reg[hist[2].out].app_uses

IsRegReserve(c) == IsGprReserve(c) \/ c.op = "reserve_simd"

\* Whether the live vector of register x says live (for a SIMD register, a
\* value of the live sub-range) at the current instruction of state p
LiveIn(p, x) ==
    IF x \in GPRs THEN LiveNow(p, x) = REG_LIVE
    ELSE SimdLiveNow(p, SIMD_IDX(x)) >= SIMD_XMM_LIVE /\ SimdLiveNow(p, SIMD_IDX(x)) <= SIMD_ZMM_LIVE
DeadIn(p, x) ==
    IF x \in GPRs THEN LiveNow(p, x) = REG_DEAD
    ELSE SimdLiveNow(p, SIMD_IDX(x)) >= SIMD_XMM_DEAD /\ SimdLiveNow(p, SIMD_IDX(x)) <= SIMD_ZMM_DEAD

\* An instruction that stores register x to spill slot number slot of its class
SpillsReg(i, x, slot) ==
    /\ i.r = x
    /\ IF x \in GPRs
       THEN \/ i.op = "spill" /\ i.s = slot
            \/ i.op = "dr_save_reg" /\ i.s = slot - ops.num_spill_slots
       ELSE i.op = "movdqa_store" /\ i.s = slot

\* The reservation returned a register that was unreserved, not yet restored, and already spilled
ReusedSpilled(c) ==
    LET a == RecordIn(c.pre, c.out) IN ~a.native /\ ~a.in_use /\ a.ever_spilled

\* Call i of the history returned to the client
ReturnedToClient(i) == i < Len(hist) \/ err = "none"

\* Liveness is read in the state after the call: outside the insertion phase
\* the call computes the live vectors itself, and no call changes them afterwards
\* C14: a successful GPR or SIMD reservation that does not reuse an already-spilled pending register inserts a store of the register to its slot and sets ever_spilled when the register is live; when it is dead and conservative is off it inserts no store of it, binds slot_use[slot] to it and clears ever_spilled; either way the register ends non-native with xchg null and slot naming the slot bound to it
C14_SpillOnlyIfLive ==
    \A i \in 1..Len(hist) :
        LET c == hist[i]
            x == c.out
            b == RecordIn(c.post, x) IN
        IsRegReserve(c) /\ Succeeded(c) /\ ReturnedToClient(i) /\ ~ReusedSpilled(c) =>
            /\ ~b.native /\ b.xchg = DR_REG_NULL
            /\ b.slot \in DOMAIN SlotUseIn(c.post, x)
            /\ SlotUseIn(c.post, x)[b.slot] = x
            /\ LiveIn(c.post, x) =>
                  /\ b.ever_spilled
                  /\ \E j \in 1..Len(c.emitted) : SpillsReg(c.emitted[j], x, b.slot)
            /\ DeadIn(c.post, x) /\ ~ops.conservative =>
                  /\ ~b.ever_spilled
                  /\ \A j \in 1..Len(c.emitted) : ~SpillsReg(c.emitted[j], x, b.slot)

\* A live register was reserved and spilled, then a dead one was reserved without a store
C14_Witness ==
    /\ Len(hist) = 2 /\ err = "none" /\ ~ops.conservative
    /\ IsRegReserve(hist[1]) /\ Succeeded(hist[1]) /\ LiveIn(hist[1].pre, hist[1].out)
    /\ hist[1].emitted # <<>> /\ RecordIn(hist[1].post, hist[1].out).ever_spilled
    /\ IsRegReserve(hist[2]) /\ Succeeded(hist[2]) /\ DeadIn(hist[2].pre, hist[2].out)
    /\ hist[2].emitted = <<>> /\ ~RecordIn(hist[2].post, hist[2].out).ever_spilled
    /\ SlotUseIn(hist[2].post, hist[2].out)[RecordIn(hist[2].post, hist[2].out).slot] = hist[2].out

\* A dead SIMD register was reserved without a store
C14_WitnessSimd ==
    /\ Len(hist) = 1 /\ err = "none" /\ ~ops.conservative
    /\ hist[1].op = "reserve_simd" /\ Succeeded(hist[1]) /\ DeadIn(hist[1].pre, hist[1].out)
    /\ hist[1].emitted = <<>>

\* The register a get_app_value call asked about
AppRegOf(c) == CHOOSE r \in c.arg : TRUE

\* C15: asking for the application value of a GPR or SIMD register that is non-native and whose ever_spilled is false returns DRREG_ERROR_NO_APP_VALUE, inserts nothing and leaves the register's record and both slot tables as they were
C15_NoAppValueWhenNeverSpilled ==
    \A i \in 1..Len(hist) :
        LET c == hist[i]
            a == RecordIn(c.pre, AppRegOf(c)) IN
        c.op = "get_app_value" /\ ~a.native /\ ~a.ever_spilled =>
            /\ c.res = DRREG_ERROR_NO_APP_VALUE
            /\ c.emitted = <<>>
            /\ RecordIn(c.post, AppRegOf(c)) = a
            /\ c.post.slot_use = c.pre.slot_use
            /\ c.post.simd_slot_use = c.pre.simd_slot_use

\* A dead register was reserved without a spill and its application value was then asked for
C15_Witness ==
    /\ Len(hist) = 2
    /\ IsRegReserve(hist[1]) /\ Succeeded(hist[1]) /\ hist[1].emitted = <<>>
    /\ hist[2].op = "get_app_value" /\ AppRegOf(hist[2]) = hist[1].out
    /\ ~RecordIn(hist[2].pre, hist[1].out).native
    /\ ~RecordIn(hist[2].pre, hist[1].out).ever_spilled
    /\ hist[2].res = DRREG_ERROR_NO_APP_VALUE

\* C16 as stated: in every state, a GPR, SIMD or aflags record that is native has xchg null and a slot field that is no index of its class's slot table
C16_NativeHasNoSlot ==
    /\ \A r \in GPRs : pt.reg[r].native =>
          pt.reg[r].xchg = DR_REG_NULL /\ pt.reg[r].slot \notin DOMAIN pt.slot_use
    /\ \A z \in SIMDs : pt.simd_reg[z].native =>
          pt.simd_reg[z].xchg = DR_REG_NULL /\ pt.simd_reg[z].slot \notin DOMAIN pt.simd_slot_use
    /\ pt.aflags.native =>
          pt.aflags.xchg = DR_REG_NULL /\ pt.aflags.slot \notin DOMAIN pt.slot_use

\* C16: in every state, a GPR or SIMD record that is native has xchg null and owns no slot: no entry of its class's slot table (other than the aflags slot, for a GPR) names the register; when the aflags are native the aflags slot is free, and aflags.xchg is null or xax, xax being held (in_use, non-native) for the copy of the flags left in it; the slot field itself keeps the number of the last reservation
C16_NativeOwnsNoSlot ==
    /\ \A r \in GPRs : pt.reg[r].native =>
          /\ pt.reg[r].xchg = DR_REG_NULL
          /\ \A sl \in DOMAIN pt.slot_use \ {AFLAGS_SLOT} : pt.slot_use[sl] # r
    /\ \A z \in SIMDs : pt.simd_reg[z].native =>
          /\ pt.simd_reg[z].xchg = DR_REG_NULL
          /\ \A sl \in DOMAIN pt.simd_slot_use :
                pt.simd_slot_use[sl] = DR_REG_NULL \/ SIMD_IDX(pt.simd_slot_use[sl]) # z
    /\ pt.aflags.native =>
          /\ pt.slot_use[AFLAGS_SLOT] = DR_REG_NULL
          /\ \/ pt.aflags.xchg = DR_REG_NULL
             \/ /\ pt.aflags.xchg = DR_REG_XAX
                /\ pt.reg[DR_REG_XAX].in_use /\ ~pt.reg[DR_REG_XAX].native

\* A register that was reserved, unreserved and restored is native again and its slot field still holds the slot it had
C16_Witness ==
    /\ Len(hist) = 2 /\ err = "none"
    /\ IsGprReserve(hist[1]) /\ Succeeded(hist[1])
    /\ hist[2].op = "unreserve_register" /\ Succeeded(hist[2])
    /\ pt.reg[hist[1].out].native
    /\ pt.reg[hist[1].out].slot = hist[1].post.reg[hist[1].out].slot
    /\ pt.reg[hist[1].out].slot # 0

\* The first instruction of blk at or after position i that is in the set S of positions, 0 if none
FirstFrom(S, i) ==
    IF {j \in S : j >= i} = {} THEN 0
    ELSE CHOOSE j \in S : j >= i /\ \A k \in S : k >= i => j <= k

\* The block analysis has run and its vectors describe the block
Analysed == pc # "idle" /\ pc # "outside"

\* The liveness the rule of C17 gives register r at instruction i of blk
RuleGprLive(blk, r, i) ==
    LET j == FirstFrom({k \in 1..Len(blk) :
                          r \in blk[k].rd \/ WritesExactUncond(blk[k], r) \/ blk[k].xfer}, i)
    IN IF j # 0 /\ WritesExactUncond(blk[j], r) /\ r \notin blk[j].rd
       THEN REG_DEAD ELSE REG_LIVE

\* C17: after the block analysis, a GPR is Dead at instruction i exactly when the first instruction at or after i that reads it, writes exactly it (or its 32-bit alias), or is a cti, interrupt or syscall, is one that writes exactly it without reading it; in every other case, the end of the block included, it is Live
C17_GprDeadIffWrittenFirst ==
    Analysed =>
        \A r \in GPRs : \A i \in 1..Len(block) :
            drvector_get_entry(pt.reg[r].live, Len(block) - i) = RuleGprLive(block, r, i)

\* xax is Dead at the first instruction because the third writes it, the second writing only al
C17_Witness ==
    /\ Analysed /\ Len(block) = 3
    /\ drvector_get_entry(pt.reg[DR_REG_XAX].live, 2) = REG_DEAD
    /\ ~WritesExactUncond(block[1], DR_REG_XAX)
    /\ DR_REG_XAX \in block[2].wr /\ ~WritesExactUncond(block[2], DR_REG_XAX)
    /\ WritesExactUncond(block[3], DR_REG_XAX)

\* Whether the rule of C18 has flag f live at instruction i of blk
RuleFlagLive(blk, f, i) ==
    LET j == FirstFrom({k \in 1..Len(blk) :
                          f \in blk[k].frd \/ f \in blk[k].fwr \/ blk[k].xfer}, i)
    IN j = 0 \/ f \in blk[j].frd \/ blk[j].xfer

\* C18: after the block analysis, the aflags mask at instruction i holds a flag exactly when, scanning forward from i, the flag is read before it is next written, a cti, interrupt or syscall and the end of the block counting as a read of every arithmetic flag
C18_FlagLiveIffReadFirst ==
    Analysed =>
        \A i \in 1..Len(block) :
            aflags_get_entry(pt.aflags.live, Len(block) - i)
                = {f \in EFLAGS_READ_ARITH : RuleFlagLive(block, f, i)}

\* At the first instruction CF is dead and OF live: a later instruction writes CF only, and the block ends without a read
C18_Witness ==
    /\ Analysed /\ Len(block) = 3
    /\ aflags_get_entry(pt.aflags.live, 2) = {"OF"}
    /\ block[1].fwr = {} /\ block[1].frd = {}
    /\ \A k \in 1..3 : ~block[k].xfer /\ "OF" \notin block[k].frd

\* A per-thread state with what forward analysis may write blanked out:
\* entry 0 of every live vector, the app_uses counters and live_idx
WithoutAnalysis(p) ==
    [p EXCEPT !.live_idx = 0,
              !.reg = [r \in GPRs |->
                         [p.reg[r] EXCEPT !.app_uses = 0, !.live = SetEntry0(@, REG_LIVE)]],
              !.simd_reg = [z \in SIMDs |->
                         [p.simd_reg[z] EXCEPT !.app_uses = 0,
                                               !.live = SetEntry0(@, SIMD_ZMM_LIVE)]],
              !.aflags.live = SetEntry0(@, {})]

\* The same, with the ever_spilled of the SIMD registers blanked out too
WithoutAnalysisOrSimdSpilled(p) ==
    [WithoutAnalysis(p) EXCEPT
        !.simd_reg = [z \in SIMDs |-> [WithoutAnalysis(p).simd_reg[z] EXCEPT !.ever_spilled = FALSE]]]

NoUnknownAtZero(p) ==
    /\ \A r \in GPRs : drvector_get_entry(p.reg[r].live, 0) # REG_UNKNOWN
    /\ \A z \in SIMDs : drvector_get_entry(p.simd_reg[z].live, 0) # SIMD_UNKNOWN

\* C19 as stated: forward analysis, run from any instruction of the list in any state a client outside the insertion phase reaches, changes nothing but entry 0 of the live vectors, the app_uses counters and live_idx, which becomes 0 (so no in_use, native, slot, xchg, ever_spilled, slot_use entry or pending counter), and leaves no entry 0 Unknown
C19_ForwardAnalysisFrame ==
    pc = "outside" =>
        \A k \in 1..(Len(block) + 1) :
            LET q == drreg_forward_analysis(pt, ilist, PosOf(ilist, At(k))) IN
            /\ WithoutAnalysis(q) = WithoutAnalysis(pt)
            /\ q.live_idx = 0
            /\ NoUnknownAtZero(q)

\* C19 but for the ever_spilled of the SIMD registers, which the analysis clears
C19_FrameButSimdEverSpilled ==
    pc = "outside" =>
        \A k \in 1..(Len(block) + 1) :
            LET q == drreg_forward_analysis(pt, ilist, PosOf(ilist, At(k))) IN
            /\ WithoutAnalysisOrSimdSpilled(q) = WithoutAnalysisOrSimdSpilled(pt)
            /\ \A z \in SIMDs : ~q.simd_reg[z].ever_spilled
            /\ q.live_idx = 0
            /\ NoUnknownAtZero(q)

\* What the cleared ever_spilled leads to: a SIMD register that was spilled when it was reserved is unreserved outside the insertion phase, after a reservation that ran the analysis, and no restore is inserted
C19_SpilledSimdNotRestored ==
    /\ Len(hist) = 3 /\ err = "none" /\ pc = "outside"
    /\ hist[1].op = "reserve_simd" /\ Succeeded(hist[1])
    /\ RecordIn(hist[1].post, hist[1].out).ever_spilled
    /\ IsGprReserve(hist[2]) /\ Succeeded(hist[2])
    /\ hist[3].op = "unreserve_register" /\ Resource(hist[3]) = hist[1].out
    /\ Succeeded(hist[3]) /\ hist[3].emitted = <<>>
    /\ RecordIn(pt, hist[1].out).native

Larger(a, b) == IF a > b THEN a ELSE b

\* The count an init call starts from: the first call of a load first sets
\* the GPR count to 1, the extra slot for the aflags
GprBase(c) == IF c.first THEN 1 ELSE c.pre.num_spill_slots

SetsDoNotSum(c) == Covers(c.arg, "do_not_sum_slots") /\ c.arg.do_not_sum_slots

IsInit(c) == c.op = "drreg_init" /\ c.res = DRREG_SUCCESS

\* C20 as stated: each successful init call whose client does not set do_not_sum_slots adds the requested count to the GPR slot count, and each whose client sets it makes the count the larger of the count so far and the requested count; the SIMD count likewise
C20_SumUnlessClientSetsMax ==
    \A i \in 1..Len(hist) :
        LET c == hist[i] IN
        IsInit(c) =>
            /\ c.post.num_spill_slots =
                  IF SetsDoNotSum(c) THEN Larger(GprBase(c), c.arg.num_spill_slots)
                  ELSE GprBase(c) + c.arg.num_spill_slots
            /\ c.post.num_spill_simd_slots =
                  IF SetsDoNotSum(c)
                  THEN Larger(c.pre.num_spill_simd_slots, c.arg.num_spill_simd_slots)
                  ELSE c.pre.num_spill_simd_slots + c.arg.num_spill_simd_slots

\* The rule an init call follows: the client's do_not_sum_slots when its options record has the field, else the flag the previous init call left in ops
MaxRuleApplies(c) ==
    IF Covers(c.arg, "do_not_sum_slots") THEN c.arg.do_not_sum_slots
    ELSE c.pre.do_not_sum_slots

\* C20: each successful init call adds the requested count to the GPR slot count, or, when the max rule applies to it, makes the count the larger of the count so far and the requested count; the max rule applies when the client sets do_not_sum_slots, and also to a client whose options record has no such field when the previous client set it; the SIMD count follows the same rule when the record has the SIMD field and is otherwise unchanged
C20_SumOrMaxWithPriorFlag ==
    \A i \in 1..Len(hist) :
        LET c == hist[i] IN
        IsInit(c) =>
            /\ c.post.num_spill_slots =
                  IF MaxRuleApplies(c) THEN Larger(GprBase(c), c.arg.num_spill_slots)
                  ELSE GprBase(c) + c.arg.num_spill_slots
            /\ c.post.num_spill_simd_slots =
                  IF ~Covers(c.arg, "num_spill_simd_slots") THEN c.pre.num_spill_simd_slots
                  ELSE IF MaxRuleApplies(c)
                  THEN Larger(c.pre.num_spill_simd_slots, c.arg.num_spill_simd_slots)
                  ELSE c.pre.num_spill_simd_slots + c.arg.num_spill_simd_slots
            /\ c.post.do_not_sum_slots = SetsDoNotSum(c)

\* Three clients: one sums, one sets do_not_sum_slots and asks for less than the count so far, one sums again
C20_Witness ==
    /\ Len(hist) = 3 /\ \A i \in 1..3 : IsInit(hist[i])
    /\ ~SetsDoNotSum(hist[1]) /\ hist[1].arg.num_spill_slots = 2 /\ hist[1].post.num_spill_slots = 3
    /\ SetsDoNotSum(hist[2]) /\ hist[2].arg.num_spill_slots = 2 /\ hist[2].post.num_spill_slots = 3
    /\ Covers(hist[3].arg, "do_not_sum_slots") /\ ~SetsDoNotSum(hist[3])
    /\ hist[3].arg.num_spill_slots = 1 /\ ops.num_spill_slots = 4
    /\ ops.num_spill_simd_slots = 2

\* What a drreg_init or drreg_exit call asked of the host
Called(c, S) == \E i \in DOMAIN c.host : c.host[i] \in S
Registrations ==
    {"drmgr_register_thread_init_event", "drmgr_register_thread_exit_event",
     "drmgr_register_tls_field", "drmgr_register_bb_instrumentation_event",
     "drmgr_register_restore_state_ex_event_ex"}
Unregistrations ==
    {"drmgr_unregister_thread_init_event", "drmgr_unregister_thread_exit_event",
     "drmgr_unregister_tls_field", "drmgr_unregister_bb_insertion_event",
     "drmgr_unregister_bb_instrumentation_event", "drmgr_unregister_restore_state_ex_event"}
IsInitCall(c) == c.op = "drreg_init"
IsExit(c) == c.op = "drreg_exit"
\* The exit that brings the count back to 0, and one that leaves clients initialized
LastExit(c) == IsExit(c) /\ c.count = 0
EarlyExit(c) == IsExit(c) /\ c.count > 0

\* C21 (as stated): in any sequence of drreg_init and drreg_exit calls, events
\* and the TLS field are registered only by the init that takes the count
\* from 0 to 1; unregistration, the release of the raw TLS and the reset of
\* the options happen only in the exit that brings the count back to 0; an
\* exit that leaves other clients initialized returns Success and changes
\* nothing but the count.
C21_TeardownOnlyOnLastExit ==
    pc = "init" =>
        \A i \in 1..Len(hist) :
            LET c == hist[i] IN
            /\ Called(c, Registrations) => (IsInitCall(c) /\ c.first)
            /\ Called(c, Unregistrations) => LastExit(c)
            /\ Called(c, {"dr_raw_tls_cfree"}) => LastExit(c)
            /\ (IsExit(c) /\ c.post = ops_zero /\ c.pre # ops_zero) => LastExit(c)
            /\ EarlyExit(c) => (c.res = DRREG_SUCCESS /\ c.host = <<>> /\ c.post = c.pre)

\* C21 (amended): as stated, except that the raw TLS is also released, and
\* allocated again at the new size in the same call, by every drreg_init
\* that passes the struct_size check while ops.num_spill_slots is above zero
\* at its entry (every such init after the first).
C21_TeardownOnLastExitReallocOnInit ==
    pc = "init" =>
        \A i \in 1..Len(hist) :
            LET c == hist[i] IN
            /\ Called(c, Registrations) => (IsInitCall(c) /\ c.first)
            /\ Called(c, Unregistrations) => LastExit(c)
            /\ Called(c, {"dr_raw_tls_cfree"}) =>
                  \/ LastExit(c)
                  \/ /\ IsInit(c) /\ c.pre.num_spill_slots > 0
                     /\ Called(c, {"dr_raw_tls_calloc"})
            /\ (IsInit(c) /\ c.pre.num_spill_slots > 0)
                  => Called(c, {"dr_raw_tls_cfree"})
            /\ (IsExit(c) /\ c.post = ops_zero /\ c.pre # ops_zero) => LastExit(c)
            /\ LastExit(c) => (Called(c, Unregistrations) /\ c.post = ops_zero)
            /\ EarlyExit(c) => (c.res = DRREG_SUCCESS /\ c.host = <<>> /\ c.post = c.pre)

\* Two clients initialize, one exits while the other remains, and nothing
\* but the count changes
C21_Witness ==
    /\ pc = "init" /\ Len(hist) = 3
    /\ IsInitCall(hist[1]) /\ hist[1].first /\ Called(hist[1], Registrations)
    /\ IsInit(hist[2]) /\ hist[2].res = DRREG_SUCCESS /\ ~Called(hist[2], Registrations)
    /\ EarlyExit(hist[3]) /\ hist[3].post = hist[3].pre /\ drreg_init_count = 1

\* The last client exits: the teardown happens, and a later init registers again
C21_WitnessLastExit ==
    /\ pc = "init" /\ Len(hist) = 3
    /\ IsInit(hist[1]) /\ LastExit(hist[2]) /\ Called(hist[2], Unregistrations)
    /\ hist[2].post = ops_zero
    /\ IsInit(hist[3]) /\ hist[3].first /\ Called(hist[3], Registrations)

\* The roles of the instructions that keep a tool value in a temporary slot
\* around an application instruction, and the application value in its slot
BracketRoles == {"tool_spill", "app_restore", "app_respill", "tool_restore"}

\* The slot the reservation c left its register in was not the register's before
TookNewSlot(c) ==
    /\ IsGprReserve(c) /\ Succeeded(c)
    /\ c.pre.slot_use[c.post.reg[c.out].slot] # c.out

\* C22: a GPR reservation that takes a slot takes the lowest-indexed free
\* one with index at least 1; no GPR that is reserved or awaiting its lazy
\* restore has slot 0, no instruction that moves a tool or application value
\* around an application instruction uses TLS slot 0, and slot_use[0] is
\* occupied only while the arithmetic flags are saved (non-native).
C22_SlotZeroOnlyForAflags ==
    err = "none" =>
        /\ \A i \in 1..Len(hist) :
              TookNewSlot(hist[i]) =>
                  LET s == hist[i].post.reg[hist[i].out].slot IN
                  /\ s >= 1 /\ hist[i].post.slot_use[s] = hist[i].out
                  /\ \A j \in 1..(s - 1) : hist[i].post.slot_use[j] # DR_REG_NULL
        /\ \A r \in GPRs : (pt.reg[r].in_use \/ ~pt.reg[r].native) => pt.reg[r].slot >= 1
        /\ \A i \in 1..Len(ilist) :
              (ilist[i].op \in {"spill", "restore"} /\ ilist[i].note \in BracketRoles)
                  => ilist[i].s >= 1
        /\ pt.slot_use[AFLAGS_SLOT] # DR_REG_NULL => ~pt.aflags.native

\* A second reservation finds slot 1 taken and gets slot 2
C22_Witness ==
    /\ err = "none" /\ Len(hist) = 2
    /\ TookNewSlot(hist[1]) /\ hist[1].post.reg[hist[1].out].slot = 1
    /\ TookNewSlot(hist[2]) /\ hist[2].post.reg[hist[2].out].slot = 2
    /\ hist[2].post.slot_use[1] = hist[1].out

\* The flags are saved in slot 0 while a reserved register is bracketed
\* through a temporary slot
C22_WitnessAflagsSlot ==
    /\ err = "none" /\ pt.slot_use[AFLAGS_SLOT] # DR_REG_NULL
    /\ \E i \in 1..Len(ilist) : ilist[i].op = "spill" /\ ilist[i].note = "tool_spill"

\* The call that reserved x for the client and had not been undone when the
\* late callback of instruction k ran (0 if there is none)
HolderAt(x, k) ==
    LET H == {i \in 1..Len(hist) :
                /\ IsReserve(hist[i]) /\ Succeeded(hist[i]) /\ Resource(hist[i]) = x
                /\ hist[i].at <= k
                /\ \A j \in (i + 1)..Len(hist) :
                      ~(IsUnreserve(hist[j]) /\ Succeeded(hist[j]) /\ Resource(hist[j]) = x
                        /\ hist[j].at <= k)}
    IN IF H = {} THEN 0 ELSE CHOOSE i \in H : TRUE

\* The late callback of instruction k has just run
JustLate(k) == err = "none" /\ pc \in {"early", "done"} /\ k = Finalized /\ k >= 1

\* The machine once everything emitted up to the next application
\* instruction (or the end of the list) has executed, and right after
\* application instruction k itself
AfterLate(k) == Run(ilist)[PosOfApp(ilist, k + 1)]
RightAfter(k) == Run(ilist)[PosOfApp(ilist, k) + 1]

\* C23: when an application instruction writes a GPR that a client holds and
\* that is live after the write, then after the code the late callback emitted
\* has run the register holds the tool's value again and the register's slot
\* holds the value the application instruction wrote.
C23_WriteKeepsToolAndAppValues ==
    \A k \in 1..Len(block) : \A r \in GPRs :
        (/\ JustLate(k) /\ HolderAt(r, k) # 0
         /\ WritesAt(block, r, k) /\ LiveAfter(r, k))
        => /\ AfterLate(k).reg[r] = Word(ToolValue(HolderAt(r, k)))
           /\ get_directly_spilled_value(AfterLate(k), pt.reg[r].slot) = RightAfter(k).reg[r]

\* What does hold: C23 when the client's calls all concern one GPR and every
\* slot used is drreg's own
C23_OneRegisterOwnSlots ==
    (/\ ops.num_spill_slots = ManySlots
     /\ \A i \in 1..Len(hist) : \A j \in 1..Len(hist) :
           IsGprReserve(hist[i]) /\ Resource(hist[i]) = Resource(hist[j]))
    => C23_WriteKeepsToolAndAppValues

\* The application instructions that read an arithmetic flag
ReadsFlags(k) == block[k].frd # {}

\* C24: every application instruction that reads an arithmetic flag executes
\* with each flag it reads holding the application's value, whatever aflags
\* reservations and unreservations the client made; and after the late
\* callback of such an instruction, if the client does not hold the aflags,
\* they are native and slot 0 is free.
C24_FlagReadsSeeAppFlags ==
    err = "none" =>
        /\ \A k \in 1..Finalized : \A f \in block[k].frd :
              Before(ilist, k).flag[f] = AppAlone(block, k - 1).flag[f]
        /\ \A k \in 1..Len(block) :
              (JustLate(k) /\ ReadsFlags(k) /\ HolderAt("aflags", k) = 0)
                  => (pt.aflags.native /\ pt.slot_use[AFLAGS_SLOT] = DR_REG_NULL)

\* A flag-reading instruction executed after the flags were restored from
\* the aflags slot ...
C24_WitnessFromSlot ==
    /\ err = "none" /\ \E k \in 1..Finalized :
          /\ ReadsFlags(k)
          /\ \E i \in 1..(PosOfApp(ilist, k) - 1) :
                /\ ilist[i].op = "restore" /\ ilist[i].s = AFLAGS_SLOT
                /\ \E j \in (i + 1)..(PosOfApp(ilist, k) - 1) : ilist[j].op = "sahf"

\* ... and one executed after they were restored from the accumulator, the
\* client having released them before
C24_Witness ==
    /\ err = "none" /\ \E k \in 1..Len(block) :
          /\ JustLate(k) /\ ReadsFlags(k) /\ HolderAt("aflags", k) = 0
          /\ \E i \in 1..Len(hist) : hist[i].op = "unreserve_aflags" /\ Succeeded(hist[i])
          /\ \E j \in 1..(PosOfApp(ilist, k) - 1) :
                /\ ilist[j].op = "sahf"
                /\ \A i \in 1..j : ~(ilist[i].op = "restore" /\ ilist[i].s = AFLAGS_SLOT)

\* What does hold: C24 when the client does not hold the aflags across an
\* application instruction that writes arithmetic flags
C24_NotHeldAcrossFlagWrite ==
    (\A k \in 1..Finalized : block[k].fwr # {} => HolderAt("aflags", k) = 0)
        => C24_FlagReadsSeeAppFlags

\* The late callback of instruction k up to, and then including, its step
\* "After aflags write by app, update spilled app value"
BeforeAflagsWrite(k) ==
    LET w0 == [World(pt, ilist) EXCEPT !.at = k]
        w1 == LateAflagsRestore(w0, k)
        w2 == ForEachReg(LateSimdRead, w1, k, SIMDSeq, 1)
    IN ForEachReg(LateGprRead, w2, k, GPRSeq, 1)
AfterAflagsWrite(k) == LateAflagsWrite(BeforeAflagsWrite(k), k)

\* Instruction k writes an arithmetic flag that is live after it
WritesLiveFlag(k) ==
    \E f \in block[k].fwr :
        k = Len(block) \/ f \in AflagsLiveAt(block, Len(block) - k - 1)

\* The instructions of il from application instruction k on
FromApp(il, k) == SubSeq(il, PosOfApp(il, k), Len(il))
HasAfter(il, k, op) == \E i \in (PosOfApp(il, k) + 1)..Len(il) : il[i].op = op

\* The late callback is about to run at an instruction that writes a live
\* flag, and its aflags step does not fail
AtLiveFlagWrite ==
    /\ pc = "client" /\ err = "none" /\ WritesLiveFlag(cur)
    /\ AfterAflagsWrite(cur).err = "none"

\* What holds of the aflags step when a client holds the aflags
SpilledAfterWrite(b, a) ==
    /\ ~HasAfter(b.ilist, cur, "lahf") /\ HasAfter(a.ilist, cur, "lahf")
    /\ ~a.pt.aflags.native

\* ... and what holds of its result when no client does
GivenUp(a) ==
    /\ a.pt.aflags.native /\ a.pt.slot_use[AFLAGS_SLOT] = DR_REG_NULL
    /\ a.pt.aflags.xchg # DR_REG_XAX

\* C25 (as stated): at an application instruction that writes an arithmetic
\* flag live afterwards, the aflags step of the late callback emits a flags
\* spill after the instruction and leaves the aflags non-native if they are
\* reserved; if they are not, it emits nothing and leaves them native, slot 0
\* free and no flags parked in the accumulator.
C25_RespillOrGiveUpSilently ==
    AtLiveFlagWrite =>
        LET b == BeforeAflagsWrite(cur)
            a == AfterAflagsWrite(cur)
        IN IF b.pt.aflags.in_use THEN SpilledAfterWrite(b, a)
           ELSE a.ilist = b.ilist /\ GivenUp(a)

\* C25 (amended): the same, except that when the aflags are not reserved and
\* unreserved flags are still parked in the accumulator the step emits code
\* before the instruction (the restore of the application's xax, preceded by
\* the restore of the flags if they were still non-native); nothing is
\* emitted after the instruction, and nothing at all when no flags are parked.
C25_RespillOrGiveUp ==
    AtLiveFlagWrite =>
        LET b == BeforeAflagsWrite(cur)
            a == AfterAflagsWrite(cur)
            parked == b.pt.reg[DR_REG_XAX].in_use /\ b.pt.aflags.xchg = DR_REG_XAX
        IN IF b.pt.aflags.in_use THEN SpilledAfterWrite(b, a)
           ELSE /\ GivenUp(a)
                /\ FromApp(a.ilist, cur) = FromApp(b.ilist, cur)
                /\ ~parked => a.ilist = b.ilist

\* Unreserved flags are parked in the accumulator when the instruction
\* writes them: the step emits the restore of xax
C25_Witness ==
    /\ AtLiveFlagWrite
    /\ ~BeforeAflagsWrite(cur).pt.aflags.in_use
    /\ BeforeAflagsWrite(cur).pt.aflags.xchg = DR_REG_XAX
    /\ AfterAflagsWrite(cur).ilist # BeforeAflagsWrite(cur).ilist
    /\ GivenUp(AfterAflagsWrite(cur))

\* The flags are reserved when the instruction writes them: they are spilled again
C25_WitnessReserved ==
    /\ AtLiveFlagWrite
    /\ BeforeAflagsWrite(cur).pt.aflags.in_use
    /\ HasAfter(AfterAflagsWrite(cur).ilist, cur, "lahf")

\* The slots that hold word v when the machine is m
SlotsHolding(m, v) ==
    {s \in 0..(MAX_SPILLS - 1) :
        s < ops.num_spill_slots + SPILL_SLOT_MAX + 1 /\ get_directly_spilled_value(m, s) = v}

IsToolValue(word) == word.v[1] = "tool"

\* C26: at every point of the emitted code where a GPR r holds a tool value
\* while the application's value of r is in a slot, the reconstructor's walk
\* up to that point ends with spilled_to[r] naming a slot that holds it.
C26_WalkTracksAppSlot ==
    (pc = "done" /\ err = "none") =>
        LET run == Run(ilist) IN
        \A i \in 1..(Len(ilist) + 1) : \A r \in GPRs :
            LET app == AppAlone(block, AppsBefore(ilist, i)).reg[r]
                rs == Walk(ilist, i, 1, WalkStart)
            IN (IsToolValue(run[i].reg[r]) /\ SlotsHolding(run[i], app) # {})
               => rs.spilled_to[r] \in SlotsHolding(run[i], app)

\* Whether instruction x of the list writes the accumulator or moves it to a
\* slot (seto, which belongs to the lahf sequence, aside)
TouchesXax(x) ==
    \/ /\ x.op \in {"restore", "dr_restore_reg", "tool_write", "load_block", "mov",
                    "spill", "dr_save_reg"}
       /\ x.r = DR_REG_XAX
    \/ x.op = "xchg"
    \/ x.op = "app" /\ WritesAt(block, DR_REG_XAX, x.k)

\* The lahf instructions before position i of the list after which the
\* accumulator was neither written nor moved to a slot
LahfBefore(i) ==
    {j \in 1..(i - 1) :
        ilist[j].op = "lahf" /\ \A h \in (j + 1)..(i - 1) : ~TouchesXax(ilist[h])}

\* At position i of the list the flags that lahf carries are parked in the
\* accumulator: a lahf put them there, ah still holds the application's
\* value of them, and the flags register does not
ParkedInXax(run, i) ==
    LET n == AppsBefore(ilist, i) IN
    /\ LahfBefore(i) # {}
    /\ run[i].reg[DR_REG_XAX].ah = AppAlone(block, n).flag["CF"]
    /\ run[i].flag["CF"] # AppAlone(block, n).flag["CF"]

\* What the claim says of position i
RebuiltFromXax(run, i) ==
    /\ Walk(ilist, i, 1, WalkStart).aflags_in_xax
    /\ drreg_event_restore_state(ilist, i, run[i]).flag["CF"] = run[i].reg[DR_REG_XAX].ah

\* C27: at every point of the emitted code where the application's flags are
\* parked in the accumulator by a lahf, the reconstructor's walk up to that
\* point ends with aflags_in_xax set and the flags it leaves are those in the
\* accumulator, whether or not a store of xax precedes the lahf.
C27_ParkedFlagsRebuilt ==
    (pc = "done" /\ err = "none") =>
        LET run == Run(ilist) IN
        \A i \in 1..(Len(ilist) + 1) : ParkedInXax(run, i) => RebuiltFromXax(run, i)

\* What does hold: C27 when the store of xax directly precedes the lahf and no
\* sahf has copied the parked flags back since
C27_ParkedAfterXaxStore ==
    (pc = "done" /\ err = "none") =>
        LET run == Run(ilist) IN
        \A i \in 1..(Len(ilist) + 1) :
            (/\ ParkedInXax(run, i)
             /\ \A j \in LahfBefore(i) :
                   /\ j > 1 /\ ilist[j - 1].op = "spill" /\ ilist[j - 1].r = DR_REG_XAX
                   /\ \A h \in (j + 1)..(i - 1) : ilist[h].op # "sahf")
            => RebuiltFromXax(run, i)

\* A block where C27_ParkedAfterXaxStore has a case
C27_WitnessAfterXaxStore ==
    /\ pc = "done" /\ err = "none"
    /\ \E i \in 1..(Len(ilist) + 1) :
          /\ ParkedInXax(Run(ilist), i)
          /\ \A j \in LahfBefore(i) :
                /\ j > 1 /\ ilist[j - 1].op = "spill" /\ ilist[j - 1].r = DR_REG_XAX
                /\ \A h \in (j + 1)..(i - 1) : ilist[h].op # "sahf"

\* The position of the latest store to DR slot s before position j of the
\* list, 0 when there is none
LastDrStore(s, j) ==
    LET hs == {h \in 1..(j - 1) : ilist[h].op = "dr_save_reg" /\ ilist[h].s = s}
    IN IF hs = {} THEN 0 ELSE CHOOSE h \in hs : \A g \in hs : g <= h

\* The loads from a DR slot whose value was stored before an application
\* instruction that lies between the store and the load
DrLoadsAcrossApp ==
    {j \in 1..Len(ilist) :
        /\ ilist[j].op = "dr_restore_reg"
        /\ LET h == LastDrStore(ilist[j].s, j)
           IN h > 0 /\ \E g \in (h + 1)..(j - 1) : ilist[g].op = "app"}

\* C28: no value that the emitted code loads from a DR slot (index at or above
\* ops.num_spill_slots) after an application instruction was stored in that
\* slot before that instruction.
C28_NoDrSlotAcrossApp ==
    err = "none" => DrLoadsAcrossApp = {}

\* The GPRs awaiting a lazy restore in per-thread state p
AwaitingRestore(p) == {x \in GPRs : ~p.reg[x].native /\ ~p.reg[x].in_use}

\* The number of loads of x from slot s (drreg's index) that list il holds
\* before application instruction k
LoadsBefore(il, k, x, s) ==
    Cardinality({i \in 1..(PosOfApp(il, k) - 1) :
        /\ il[i].r = x
        /\ \/ il[i].op = "restore" /\ il[i].s = s
           \/ il[i].op = "dr_restore_reg" /\ il[i].s = s - ops.num_spill_slots})

\* The world in which the late callback of instruction k, called in the
\* current state, enters the iteration of its GPR read loop for GPRSeq[n]
AtGprRead(k, n) ==
    LET w0 == [World(pt, ilist) EXCEPT !.restored_for_read = {},
                                       !.restored_for_simd_read = {}, !.at = k]
    IN With(LateAflagsRestore(w0, k), LAMBDA w1 :
       With(ForEachReg(LateSimdRead, w1, k, SIMDSeq, 1), LAMBDA w2 :
       ForEachReg(LateGprRead, w2, k, SubSeq(GPRSeq, 1, n - 1), 1)))

\* List a is list b with one load of x from slot s inserted before
\* application instruction k
OneLoadInserted(b, a, k, x, s) ==
    /\ Len(a) = Len(b) + 1
    /\ \E i \in 1..(PosOfApp(a, k) - 1) :
          /\ a[i].r = x
          /\ \/ a[i].op = "restore" /\ a[i].s = s
             \/ a[i].op = "dr_restore_reg" /\ a[i].s = s - ops.num_spill_slots
          /\ b = [h \in 1..Len(b) |-> IF h < i THEN a[h] ELSE a[h + 1]]

\* C29: when the late callback's GPR read loop comes to a register that is
\* unreserved and non-native and that the application instruction reads, it
\* emits one load of the register from its slot before the instruction if the
\* register was ever spilled and nothing otherwise, frees the slot, sets the
\* register native and takes exactly one off pending_unreserved.
C29_LazyRestoreAtRead ==
    (pc = "client" /\ err = "none") =>
        \A n \in DOMAIN GPRSeq :
            \A b \in {AtGprRead(cur, n)} : \A a \in {LateGprRead(b, cur, GPRSeq[n])} :
            LET x == GPRSeq[n]
                s == b.pt.reg[x].slot
            IN (b.err = "none" /\ x \in AwaitingRestore(b.pt) /\ x \in block[cur].rd) =>
               /\ a.err = "none"
               /\ IF b.pt.reg[x].ever_spilled
                  THEN OneLoadInserted(b.ilist, a.ilist, cur, x, s)
                  ELSE a.ilist = b.ilist
               /\ a.pt.slot_use[s] = DR_REG_NULL
               /\ a.pt.reg[x].native
               /\ a.pt.pending_unreserved = b.pt.pending_unreserved - 1
               /\ a.pt.pending_unreserved >= 0

\* A register unreserved at an instruction that reads it has been restored
\* by the late callback of that instruction, which is not the last
C29_Witness ==
    \E k \in 1..(Len(block) - 1) :
        /\ JustLate(k)
        /\ \E x \in block[k].rd \cap GPRs :
              /\ \E i \in 1..Len(hist) :
                    /\ IsUnreserve(hist[i]) /\ Succeeded(hist[i])
                    /\ Resource(hist[i]) = x /\ hist[i].at = k
              /\ HolderAt(x, k) = 0
              /\ pt.reg[x].native
              /\ LoadsBefore(ilist, k, x, 1) + LoadsBefore(ilist, k, x, 2) > 0

\* The registers of either class awaiting a lazy restore in per-thread state p
AwaitingRestoreSimd(p) == {z \in SIMDs : ~p.simd_reg[z].native /\ ~p.simd_reg[z].in_use}

\* The blocks C30 is about
ComplexFlow(p) ==
    \/ p.bb_has_internal_flow /\ DRREG_IGNORE_CONTROL_FLOW \notin p.bb_props
    \/ DRREG_CONTAINS_SPANNING_CONTROL_FLOW \in p.bb_props

\* The world in which the late callback of instruction k, called in the
\* current state, leaves its read loops: all it emits from there on goes
\* after the application instruction or belongs to a reserved register
AfterReadLoops(k) == AtGprRead(k, Len(GPRSeq) + 1)

\* C30: when the block has internal control flow and no IgnoreControlFlow
\* hint, or carries ContainsSpanningControlFlow, the late callback of every
\* application instruction ends with no GPR and no SIMD register unreserved
\* and non-native.
C30_NothingPendingAcrossFlow ==
    (pc = "client" /\ err = "none" /\ ComplexFlow(pt)) =>
        \A w \in {drreg_event_bb_insert_late(World(pt, ilist), cur)} :
           w.err = "none" =>
              /\ AwaitingRestore(w.pt) = {}
              /\ AwaitingRestoreSimd(w.pt) = {}

\* C30 as the code has it: in such a block the late callback of every
\* application instruction leaves its read loops, whose code goes before the
\* instruction, with no GPR and no SIMD register unreserved and non-native,
\* and ends with no SIMD register so; a GPR it borrows for code after the
\* instruction may be left awaiting the next callback.
C30_NothingPendingAtInstr ==
    (pc = "client" /\ err = "none" /\ ComplexFlow(pt)) =>
        /\ \A w3 \in {AfterReadLoops(cur)} :
              w3.err = "none" =>
                 /\ AwaitingRestore(w3.pt) = {}
                 /\ AwaitingRestoreSimd(w3.pt) = {}
        /\ \A w \in {drreg_event_bb_insert_late(World(pt, ilist), cur)} :
              w.err = "none" => AwaitingRestoreSimd(w.pt) = {}

\* The late callback of an instruction that is not the last has restored a
\* register the instruction does not touch, because of the block's flow
C30_Witness ==
    \E k \in 1..(Len(block) - 1) :
        /\ JustLate(k) /\ ComplexFlow(pt)
        /\ \E x \in GPRs \ (block[k].rd \cup block[k].wr) :
              /\ \E i \in 1..Len(hist) :
                    /\ IsUnreserve(hist[i]) /\ Succeeded(hist[i])
                    /\ Resource(hist[i]) = x /\ hist[i].at = k
              /\ HolderAt(x, k) = 0
              /\ pt.reg[x].native
              /\ LoadsBefore(ilist, k, x, 1) + LoadsBefore(ilist, k, x, 2) > 0

\* The GPRs whose application value lies only in their slot: non-native, ever
\* spilled, and not the register the flags are parked in
AppValueInSlot(p) ==
    {x \in GPRs : ~p.reg[x].native /\ p.reg[x].ever_spilled /\ p.aflags.xchg # x}

\* Instruction x loads register dst from slot s (drreg's index)
LoadsInto(x, dst, s) ==
    /\ x.r = dst
    /\ \/ x.op = "restore" /\ x.s = s
       \/ x.op = "dr_restore_reg" /\ x.s = s - ops.num_spill_slots

\* C31: for a GPR app_reg that is non-native, ever spilled and does not hold
\* parked flags, drreg_get_app_value(app_reg, dst) succeeds and emits one
\* instruction, a load of app_reg's slot into dst, so app_reg is written only
\* when dst is app_reg.
C31_GetAppValueLoadsIntoDst ==
    ClientMay =>
        \A app_reg \in AppValueInSlot(pt) : \A dst \in GPRs \ {DR_REG_XSP} :
        \A w \in {drreg_get_app_value(World(pt, ilist), At(cur), app_reg, dst)} :
            /\ w.res = DRREG_SUCCESS
            /\ Len(w.ilist) = Len(ilist) + 1
            /\ \E i \in 1..Len(w.ilist) :
                  /\ ilist = [h \in 1..Len(ilist) |-> IF h < i THEN w.ilist[h] ELSE w.ilist[h + 1]]
                  /\ LoadsInto(w.ilist[i], dst, pt.reg[app_reg].slot)

\* What does hold: the same with the load going into app_reg itself
C31_GetAppValueLoadsIntoAppReg ==
    ClientMay =>
        \A app_reg \in AppValueInSlot(pt) : \A dst \in GPRs \ {DR_REG_XSP} :
        \A w \in {drreg_get_app_value(World(pt, ilist), At(cur), app_reg, dst)} :
            /\ w.res = DRREG_SUCCESS
            /\ Len(w.ilist) = Len(ilist) + 1
            /\ \E i \in 1..Len(w.ilist) :
                  /\ ilist = [h \in 1..Len(ilist) |-> IF h < i THEN w.ilist[h] ELSE w.ilist[h + 1]]
                  /\ LoadsInto(w.ilist[i], app_reg, pt.reg[app_reg].slot)

\* The instructions the forward scan started at instruction w of blk visits:
\* from w up to, not including, the first cti, interrupt or syscall
ScanRange(blk, w) ==
    {k \in w..Len(blk) : \A h \in w..k : ~blk[h].xfer}

\* Whether the rule of C32 has flag f live for a scan started at w
RuleForwardFlagLive(blk, f, w) ==
    LET T == {k \in ScanRange(blk, w) : f \in blk[k].frd \/ f \in blk[k].fwr}
    IN T = {} \/ f \in blk[FirstFrom(T, w)].frd

\* C32: after the forward analysis started at instruction w, entry 0 of the
\* aflags live vector holds exactly the flags that, from w up to the first
\* cti, interrupt or syscall, are read before they are written or are not
\* written at all; a flag read and only later written is live.
C32_ForwardFlagLiveIffReadFirst ==
    Analysed =>
        \A w \in 1..Len(block) :
            aflags_get_entry(drreg_forward_analysis(pt, ilist, w).aflags.live, 0)
                = {f \in EFLAGS_READ_ARITH : RuleForwardFlagLive(block, f, w)}

\* What does hold: entry 0 holds exactly the flags that no visited
\* instruction writes without reading them
C32_ForwardFlagLiveIffNeverWritten ==
    Analysed =>
        \A w \in 1..Len(block) :
            aflags_get_entry(drreg_forward_analysis(pt, ilist, w).aflags.live, 0)
                = {f \in EFLAGS_READ_ARITH :
                      \A k \in ScanRange(block, w) : f \in block[k].fwr => f \in block[k].frd}

\* The width (1 xmm, 2 ymm, 3 zmm) of a liveness state, and its kind
SimdWidth(v) == (v % 3) + 1
IsSimdLive(v) == v \in {SIMD_XMM_LIVE, SIMD_YMM_LIVE, SIMD_ZMM_LIVE}
IsSimdDead(v) == v \in {SIMD_XMM_DEAD, SIMD_YMM_DEAD, SIMD_ZMM_DEAD}

\* The widest width at which inst reads, or writes exactly, SIMD register z
\* (0 if at none)
WidestIn(S, z) ==
    IF SimdNames[z]["OPSZ_64"] \in S THEN 3
    ELSE IF SimdNames[z]["OPSZ_32"] \in S THEN 2
    ELSE IF SimdNames[z]["OPSZ_16"] \in S THEN 1 ELSE 0

\* The state the block analysis recorded for z at instruction i of the block
SimdStateAt(z, i) == drvector_get_entry(pt.simd_reg[z].live, Len(block) - i)

\* C33: in the block analysis, when the state of a SIMD register after an
\* instruction is a Live state wider than every read of the register by the
\* instruction, the state recorded at the instruction is that wider Live
\* state; when it is a Dead state wider than the instruction's exact write
\* (and the instruction does not read the register), the recorded state is
\* that wider Dead state.
C33_LadderPreserved ==
    Analysed =>
        \A z \in SIMDs : \A i \in 1..(Len(block) - 1) :
            LET succ == SimdStateAt(z, i + 1)
                rd == WidestIn(block[i].srd, z)
                wr == WidestIn(block[i].swr, z)
            IN /\ (IsSimdLive(succ) /\ rd > 0 /\ rd < SimdWidth(succ))
                  => SimdStateAt(z, i) = succ
               /\ (IsSimdDead(succ) /\ rd = 0 /\ wr > 0 /\ wr < SimdWidth(succ))
                  => SimdStateAt(z, i) = succ

\* What does hold: the state recorded at an instruction that reads the
\* register, or writes it exactly without reading it, is the Live or Dead
\* state of the instruction's own widest width, whatever follows
C33_OwnWidthOnly ==
    Analysed =>
        \A z \in SIMDs : \A i \in 1..Len(block) :
            LET rd == WidestIn(block[i].srd, z)
                wr == WidestIn(block[i].swr, z)
            IN /\ rd > 0 => IsSimdLive(SimdStateAt(z, i)) /\ SimdWidth(SimdStateAt(z, i)) = rd
               /\ (rd = 0 /\ wr > 0)
                  => IsSimdDead(SimdStateAt(z, i)) /\ SimdWidth(SimdStateAt(z, i)) = wr

\* An indirect SIMD spill or restore, and the load of the block pointer
IsSimdMove(x) == x.op \in {"movdqa_store", "movdqa_load"}
IsBlockLoad(x) == x.op = "load_block"

C34_WitnessRestore ==
    /\ err = "none" /\ phase = "insertion"
    /\ \E i \in 1..(Len(ilist) - 1) :
          ilist[i].op = "load_block" /\ ilist[i + 1].op = "movdqa_load"

\* The scratch GPR was dead or pending: nothing of it was stored before the load
C34_WitnessNoScratchSpill ==
    /\ err = "none"
    /\ \E i \in 1..(Len(ilist) - 1) :
          /\ ilist[i].op = "load_block" /\ IsSimdMove(ilist[i + 1])
          /\ \A h \in 1..(i - 1) : ~(IsSpillStore(ilist[h]) /\ ilist[h].r = ilist[i].r)

\* The hints a client may pass
BBProperties == {{DRREG_IGNORE_CONTROL_FLOW}, {DRREG_CONTAINS_SPANNING_CONTROL_FLOW}}

\* C35: drreg_set_bb_properties returns DRREG_ERROR_FEATURE_NOT_AVAILABLE and
\* leaves bb_props as it was when the phase is none of app2app, analysis and
\* insertion; in those three it ors the flags into bb_props and returns
\* DRREG_SUCCESS.
C35_SetPropertiesOnlyInPhases ==
    \A flags \in BBProperties :
        LET r == drreg_set_bb_properties(pt, flags) IN
        IF phase \in {"app2app", "analysis", "insertion"}
        THEN r.res = DRREG_SUCCESS /\ r.pt = [pt EXCEPT !.bb_props = @ \cup flags]
        ELSE r.res = DRREG_ERROR_FEATURE_NOT_AVAILABLE /\ r.pt = pt

\* What does hold: in every phase the flags are or-ed in and the call succeeds
C35_SetPropertiesAlways ==
    \A flags \in BBProperties :
        LET r == drreg_set_bb_properties(pt, flags) IN
        r.res = DRREG_SUCCESS /\ r.pt = [pt EXCEPT !.bb_props = @ \cup flags]

\* C36: between calls and callbacks pending_unreserved is the number of GPRs
\* that are non-native and not in use, simd_pending_unreserved the number of
\* such SIMD registers; neither is negative, and both are 0 after the late
\* callback of the block's last instruction.
C36_PendingCountsAwaiting ==
    err = "none" =>
        /\ pt.pending_unreserved = Cardinality(AwaitingRestore(pt))
        /\ pt.simd_pending_unreserved = Cardinality(AwaitingRestoreSimd(pt))
        /\ pt.pending_unreserved >= 0 /\ pt.simd_pending_unreserved >= 0
        /\ pc = "done" => pt.pending_unreserved = 0 /\ pt.simd_pending_unreserved = 0

\* The tracking fields of a per-thread state
Tracking(p) ==
    [reg |-> [r \in GPRs |-> [p.reg[r] EXCEPT !.live = <<>>, !.app_uses = 0]],
     simd_reg |-> [z \in SIMDs |-> [p.simd_reg[z] EXCEPT !.live = <<>>, !.app_uses = 0]],
     aflags |-> [p.aflags EXCEPT !.live = <<>>, !.app_uses = 0],
     slot_use |-> p.slot_use,
     simd_slot_use |-> p.simd_slot_use,
     pending_unreserved |-> p.pending_unreserved,
     simd_pending_unreserved |-> p.simd_pending_unreserved]

StatelessArgs == {DR_REG_NULL, "xax", "xcx", "xmm0"}

\* C38: drreg_statelessly_restore_app_value leaves in_use, native, slot, xchg
\* and ever_spilled of every register, every slot_use entry and the
\* pending-unreserved counters as they were, for every register argument,
\* the flags (DR_REG_NULL) and xax with the flags parked in it included.
C38_StatelessKeepsTracking ==
    (pc = "client" /\ err = "none") =>
        \A reg \in StatelessArgs :
            \A w \in {drreg_statelessly_restore_app_value(World(pt, ilist), reg,
                                                          At(cur), At(cur))} :
                w.err = "none" => Tracking(w.pt) = Tracking(pt)

----------------------------------------------------------------------------
(* The instruction list's auto-predicate across the API calls *)

\* dr_pred_type_t: no predicate, and the predicate of a cmovb
DR_PRED_NONE == "DR_PRED_NONE"
DR_PRED_B == "DR_PRED_B"
AutoPredicates == {DR_PRED_NONE, DR_PRED_B}

\* What a call did to the auto-predicate: after is instrlist_get_auto_predicate
\* when the call returns, under the values it had at the call's insertions
Predicated(after, under) == [after |-> after, under |-> under]

\* "instrlist_set_auto_predicate(ilist, DR_PRED_NONE); res = f(...);
\*  instrlist_set_auto_predicate(ilist, pred);" around the call that took w to r
Bracketed(w, r, pred) ==
    Predicated(pred, IF r.ilist # w.ilist THEN {DR_PRED_NONE} ELSE {})

\* drreg_restore_app_value: the setting is saved on entry, cleared after the
\* check of the GPR arguments and put back before each return but the one
\* for a SIMD app_reg with a dst_reg that is no SIMD register
AutoPredicate_restore_app_value(w, where, app_reg, dst_reg, stateful, pred) ==
    IF reg_is_gpr(app_reg) /\ (~reg_is_pointer_sized(app_reg) \/ ~reg_is_pointer_sized(dst_reg))
    THEN Predicated(pred, {})
    ELSE IF ~reg_is_gpr(app_reg) /\ reg_is_vector_simd(app_reg) /\ ~reg_is_vector_simd(dst_reg)
    THEN Predicated(DR_PRED_NONE, {})
    ELSE Bracketed(w, drreg_restore_app_value(w, where, app_reg, dst_reg, stateful), pred)

\* drreg_statelessly_restore_app_value never touches the setting itself:
\* the flags are restored and xax is reloaded for the re-spill under the
\* setting the list has at that point
AutoPredicate_statelessly_restore(w, reg, where_restore, where_respill, pred) ==
    IF where_restore.k > Len(block) \/ where_respill.k > Len(block)
    THEN Predicated(pred, {})
    ELSE IF reg = DR_REG_NULL
    THEN Predicated(pred, IF drreg_restore_aflags(w, where_restore, FALSE).ilist # w.ilist
                          THEN {pred} ELSE {})
    ELSE IF reg_is_gpr(reg) /\ ~reg_is_pointer_sized(reg) THEN Predicated(pred, {})
    ELSE LET a == AutoPredicate_restore_app_value(w, where_restore, reg, reg, FALSE, pred)
             w1 == drreg_restore_app_value(w, where_restore, reg, reg, FALSE) IN
         IF w1.res \in {DRREG_SUCCESS, DRREG_ERROR_NO_APP_VALUE} /\ w1.pt.aflags.xchg = reg
         THEN Predicated(a.after, a.under \cup {a.after})
         ELSE a

\* drreg_restore_app_aflags
drreg_restore_app_aflags(w, where) ==
    IF ~w.pt.aflags.native
    THEN With(drreg_restore_aflags(w, where, ~w.pt.aflags.in_use), LAMBDA r :
         IF ~w.pt.aflags.in_use THEN [r EXCEPT !.pt.aflags.native = TRUE] ELSE r)
    ELSE Ret(w, DRREG_SUCCESS)

\* The calls that put the setting back on every path, with same-class arguments
AutoPredicateBracketedCalls(w, where, pred) ==
    {Bracketed(w, drreg_reserve_register_ex(w, c, where, NULL_VECTOR), pred) :
        c \in {DRREG_GPR_SPILL_CLASS, DRREG_SIMD_XMM_SPILL_CLASS, DRREG_SIMD_ZMM_SPILL_CLASS}}
    \cup {Bracketed(w, drreg_reserve_dead_register_ex(w, c, where, NULL_VECTOR), pred) :
        c \in {DRREG_GPR_SPILL_CLASS, DRREG_SIMD_XMM_SPILL_CLASS}}
    \cup {Bracketed(w, drreg_unreserve_register(w, where, x), pred) : x \in {"xax", "xmm0"}}
    \cup {Bracketed(w, drreg_reserve_aflags(w, where), pred),
          Bracketed(w, drreg_unreserve_aflags(w, where), pred),
          Bracketed(w, drreg_restore_app_aflags(w, where), pred)}
    \cup {AutoPredicate_restore_app_value(w, where, x[1], x[2], TRUE, pred) :
        x \in {<<"xax", "xax">>, <<"xax", "xcx">>, <<"xmm0", "xmm0">>, <<"xmm0", "xmm1">>}}

\* Every call of the API the client can make in this state
AutoPredicateCalls(w, where, pred) ==
    AutoPredicateBracketedCalls(w, where, pred)
    \cup {AutoPredicate_restore_app_value(w, where, "xmm0", "xax", TRUE, pred)}
    \cup {AutoPredicate_statelessly_restore(w, x, where, where, pred) :
             x \in StatelessArgs}

\* C37: every API call that can emit instructions emits them with the
\* auto-predicate cleared and returns, on every path, with the list's
\* auto-predicate as it was on entry.
C37_AutoPredicateKept ==
    (pc \in {"client", "outside"} /\ err = "none") =>
        \A pred \in AutoPredicates :
            \A c \in AutoPredicateCalls(World(pt, ilist), At(cur), pred) :
                c.after = pred /\ c.under \subseteq {DR_PRED_NONE}

\* What does hold: the calls other than the stateless restore, with a
\* dst_reg of app_reg's class
C37_AutoPredicateKeptSameClass ==
    (pc \in {"client", "outside"} /\ err = "none") =>
        \A pred \in AutoPredicates :
            \A c \in AutoPredicateBracketedCalls(World(pt, ilist), At(cur), pred) :
                c.after = pred /\ c.under \subseteq {DR_PRED_NONE}

\* The stateless restore of the flags inserts under the caller's predicate
C37_StatelessUnderNone ==
    (pc \in {"client", "outside"} /\ err = "none") =>
        \A pred \in AutoPredicates :
            AutoPredicate_statelessly_restore(World(pt, ilist), DR_REG_NULL, At(cur), At(cur),
                                              pred).under \subseteq {DR_PRED_NONE}

\* Entry 0 of a GPR's live vector after the forward analysis started at
\* instruction w, and the block analysis' entry for the same instruction
ForwardLive(r, w) == drvector_get_entry(drreg_forward_analysis(pt, ilist, w).reg[r].live, 0)
BlockLive(r, w) == drvector_get_entry(pt.reg[r].live, Len(block) - w)

\* C39: for the same list and the same instruction, a GPR the forward
\* analysis has dead is dead for the block analysis too.
C39_ForwardDeadIsBlockDead ==
    Analysed =>
        \A w \in 1..Len(block) : \A r \in GPRs :
            ForwardLive(r, w) = REG_DEAD => BlockLive(r, w) = REG_DEAD

\* A GPR dead for both analyses at an instruction that does not write it,
\* and one live for both, in one block
C39_Witness ==
    /\ Analysed
    /\ \E w \in 1..Len(block) : \E r \in GPRs :
          /\ ForwardLive(r, w) = REG_DEAD /\ BlockLive(r, w) = REG_DEAD
          /\ ~WritesExactUncond(block[w], r)
    /\ \E w \in 1..Len(block) : \E r \in GPRs :
          ForwardLive(r, w) = REG_LIVE /\ BlockLive(r, w) = REG_LIVE

\* C40: whenever aflags.xchg names xax, the record of xax is in use and not
\* native and its slot is bound to xax in slot_use.
C40_ParkedFlagsOwnXax ==
    (pt.aflags.xchg = DR_REG_XAX /\ err = "none") =>
        /\ pt.reg[DR_REG_XAX].in_use
        /\ ~pt.reg[DR_REG_XAX].native
        /\ pt.slot_use[pt.reg[DR_REG_XAX].slot] = DR_REG_XAX

\* The flags are parked in xax and the client has made a further call since
C40_Witness ==
    /\ pt.aflags.xchg = DR_REG_XAX /\ err = "none" /\ pc = "client"
    /\ Len(hist) >= 2
    /\ \E i \in 1..(Len(hist) - 1) : hist[i].op = "reserve_aflags" /\ hist[i].res = DRREG_SUCCESS

====
